---------------------------- MODULE Spec2Model ----------------------------
(***************************************************************************)
(* A model of the document comparison engine of doc_compare.               *)
(*                                                                         *)
(* Two variants of the engine live in the repository:                      *)
(*   - the exact-mutual pipeline      (src/unnamed/part_002)               *)
(*   - the format-preserving pipeline (src/src/utils/textComparison.js)    *)
(* Both export compareHtmlDocuments(leftHtml, rightHtml), which returns a  *)
(* promise and does all its work in one setTimeout callback.               *)
(*                                                                         *)
(* Markup is modelled structurally.  A document is a sequence of block     *)
(* elements; an element has a tag, a class set, a font weight (the one     *)
(* style property that varies in the model), image attributes and a        *)
(* sequence of items, each item being a text node or an injected span.     *)
(* A text is a sequence of one-character strings.  The inline elements     *)
(* that separate the text nodes of a block are elements that neither       *)
(* pipeline extracts as units of their own (a, u, sub, ...).               *)
(*                                                                         *)
(* Indexes are 1-based here and 0-based in the source; NULL (0) stands     *)
(* for the source's null index.                                            *)
(***************************************************************************)
EXTENDS Integers, Sequences, FiniteSets, TLC

VARIABLES
    pc,              \* "idle", "pending" (promise returned, timer set), "resolved"
    pipeline,        \* which module's compareHtmlDocuments was called
    leftHtml,        \* the arguments of the call
    rightHtml,
    threw,           \* the step whose exception reached the catch block, or "none"
    work,            \* the steps the callback ran
    result,          \* what the promise was resolved with
    alignment,       \* the records of createExactAlignment in the last run
    leftProcessed,   \* the processed units of the last run
    rightProcessed,
    calls,           \* the invocations made at the same time, in call order
    preview,         \* the placeholder previews made for one text, or NoPreview
    structure,       \* a nested document with the elements its units came
                     \* from and the elements their highlights went to
    markers,         \* UnifiedMiniMap: the ratios of the markers, in percent
    currentChange,   \* UnifiedMiniMap: the index of the current marker, from 0
    scroll           \* DocumentPreview: the two panels and their scroll
                     \* handlers, or NoScroll before they are mounted

\* The state of the comparison engine.
engineVars == <<pc, pipeline, leftHtml, rightHtml, threw, work, result,
                alignment, leftProcessed, rightProcessed, calls>>

\* The state outside the comparison engine.
minimapVars == <<markers, currentChange>>

otherVars == <<preview, structure, minimapVars, scroll>>

vars == <<engineVars, otherVars>>

(***************************************************************************)
(* Bounds of the model.                                                    *)
(***************************************************************************)
\* The two documents of one comparison hold at most MaxUnits units together.
MaxUnits == 2

\* A nested document holds at most MaxNodes elements.
MaxNodes == 3

\* The minimap shows at most MaxMarkers markers.
MaxMarkers == 3

\* scrollHeight - clientHeight of a panel is at most MaxScrollRange.
MaxScrollRange == 2

\* The programmatic assignments are counted up to MaxAssignments.
MaxAssignments == 6

\* The same bound for the runs of the exact-mutual pipeline in which no step
\* fails (SpecExact): one unit more, so that one unit can meet two similar ones.
MaxExactUnits == 3

\* A document compared with itself (SpecSame) holds at most MaxSameUnits units.
MaxSameUnits == 2

\* The two documents of a comparison with images (SpecImages) hold at most
\* MaxImageUnits units together.
MaxImageUnits == 3

\* The unmatched right units of the sorted record lists (SpecSort) are among
\* the first MaxSortRight units of the right document.
MaxSortRight == 2

\* At most MaxCalls invocations are made at the same time (SpecConcurrent).
MaxCalls == 2

\* The texts whose placeholder previews are compared (SpecPreview) have at
\* most MaxPreviewText characters.
MaxPreviewText == 110

\* The two documents of a comparison of the format-preserving pipeline alone
\* (SpecFormat) hold at most MaxFormatUnits units together.
MaxFormatUnits == 2

(***************************************************************************)
(* Text primitives (JavaScript String methods used by the source).         *)
(***************************************************************************)
SP == " "

IsBlank(c) == c = SP

RECURSIVE Concat(_)
\* Array.prototype.join("") / textContent: the concatenation of texts.
Concat(ts) ==
    IF ts = <<>> THEN <<>> ELSE Head(ts) \o Concat(Tail(ts))

RECURSIVE TrimStart(_)
TrimStart(t) ==
    IF t # <<>> /\ IsBlank(Head(t)) THEN TrimStart(Tail(t)) ELSE t

RECURSIVE TrimEnd(_)
TrimEnd(t) ==
    IF t # <<>> /\ IsBlank(t[Len(t)]) THEN TrimEnd(SubSeq(t, 1, Len(t) - 1)) ELSE t

\* String.prototype.trim
Trim(t) == TrimEnd(TrimStart(t))

RECURSIVE CollapseWs(_)
\* text.replace(/\s+/g, ' '): every run of whitespace becomes one space.
CollapseWs(t) ==
    IF t = <<>> THEN <<>>
    ELSE IF IsBlank(Head(t))
         THEN <<SP>> \o CollapseWs(TrimStart(t))
         ELSE <<Head(t)>> \o CollapseWs(Tail(t))

\* text.replace(/\s+/g, ' ').trim()
NormalizeWs(t) == Trim(CollapseWs(t))

\* String.prototype.toLowerCase on the model's alphabet.
LowerChar(c) == IF c = "H" THEN "h" ELSE c

ToLowerCase(t) == [i \in 1..Len(t) |-> LowerChar(t[i])]

\* text.substring(0, n) + (text.length > n ? '...' : '')
Preview(t, n) ==
    IF Len(t) > n THEN SubSeq(t, 1, n) \o <<".", ".", ".">> ELSE t

Max(a, b) == IF a >= b THEN a ELSE b

Min(a, b) == IF a <= b THEN a ELSE b

(***************************************************************************)
(* diff-match-patch, the character diff library both pipelines call.       *)
(* A diff is a sequence of operations [op, text], op 0 equal, 1 insert,    *)
(* -1 delete.                                                              *)
(***************************************************************************)
DIFF_DELETE == -1

DIFF_INSERT == 1

DIFF_EQUAL == 0

RECURSIVE CommonPrefixLen(_, _)
CommonPrefixLen(a, b) ==
    IF a # <<>> /\ b # <<>> /\ Head(a) = Head(b)
    THEN 1 + CommonPrefixLen(Tail(a), Tail(b))
    ELSE 0

RECURSIVE CommonSuffixLen(_, _)
CommonSuffixLen(a, b) ==
    IF a # <<>> /\ b # <<>> /\ a[Len(a)] = b[Len(b)]
    THEN 1 + CommonSuffixLen(SubSeq(a, 1, Len(a) - 1), SubSeq(b, 1, Len(b) - 1))
    ELSE 0

RECURSIVE LCSRow(_, _, _, _)
\* One row of the longest-common-subsequence table: prev is the row of the
\* text before character c, cur the entries of this row computed so far.
LCSRow(prev, c, b, cur) ==
    IF Len(cur) = Len(b) THEN cur
    ELSE LCSRow(prev, c, b,
             Append(cur,
                 IF c = b[Len(cur) + 1]
                 THEN (IF cur = <<>> THEN 0 ELSE prev[Len(cur)]) + 1
                 ELSE Max(prev[Len(cur) + 1],
                          IF cur = <<>> THEN 0 ELSE cur[Len(cur)])))

RECURSIVE LCSRows(_, _, _)
LCSRows(a, b, prev) ==
    IF a = <<>> THEN prev
    ELSE LCSRows(Tail(a), b, LCSRow(prev, Head(a), b, <<>>))

\* The length of a longest common subsequence: the total length of the
\* equalities of a minimal edit script, which is what diff_main returns
\* (Myers' algorithm) for the texts of the model.
LCSLen(a, b) ==
    IF a = <<>> \/ b = <<>> THEN 0
    ELSE LCSRows(a, b, [j \in 1..Len(b) |-> 0])[Len(b)]

\* String.prototype.indexOf: the first position (1-based) of short in long, 0 if none.
IndexOf(long, short) ==
    LET hits == {i \in 1..(Len(long) - Len(short) + 1) :
                    SubSeq(long, i, i + Len(short) - 1) = short}
    IN IF hits = {} THEN 0 ELSE CHOOSE i \in hits : \A j \in hits : i <= j

Op(o, t) == [op |-> o, text |-> t]

\* The operations of a diff without the empty ones.
NonEmptyOps(ds) == SelectSeq(ds, LAMBDA d : d.text # <<>>)

\* diff_compute_ followed by diff_cleanupSemantic on two texts that share no
\* prefix and no suffix.  One text empty: a single edit.  The shorter text
\* inside the longer: edit, equality, edit, and the cleanup removes the
\* equality when it is no longer than the edits on both of its sides.
\* Otherwise every equality the bisection finds between the edits is, for
\* the texts of the model, a single character with edits on both sides,
\* which the cleanup removes: one deletion and one insertion remain.
DiffMiddle(a, b) ==
    IF a = <<>> THEN NonEmptyOps(<<Op(DIFF_INSERT, b)>>)
    ELSE IF b = <<>> THEN <<Op(DIFF_DELETE, a)>>
    ELSE LET long  == IF Len(a) > Len(b) THEN a ELSE b
             short == IF Len(a) > Len(b) THEN b ELSE a
             o     == IF Len(a) > Len(b) THEN DIFF_DELETE ELSE DIFF_INSERT
             i     == IndexOf(long, short)
             pre   == SubSeq(long, 1, i - 1)
             post  == SubSeq(long, i + Len(short), Len(long))
         IN IF i # 0 /\ ~(Len(short) <= Len(pre) /\ Len(short) <= Len(post))
            THEN <<Op(o, pre), Op(DIFF_EQUAL, short), Op(o, post)>>
            ELSE <<Op(DIFF_DELETE, a), Op(DIFF_INSERT, b)>>

\* dmp.diff_main(a, b) followed by dmp.diff_cleanupSemantic(diffs): the
\* common prefix, the diff of the middles, the common suffix.
DiffSemantic(a, b) ==
    IF a = b THEN NonEmptyOps(<<Op(DIFF_EQUAL, a)>>)
    ELSE LET p  == CommonPrefixLen(a, b)
             a1 == SubSeq(a, p + 1, Len(a))
             b1 == SubSeq(b, p + 1, Len(b))
             s  == CommonSuffixLen(a1, b1)
             am == SubSeq(a1, 1, Len(a1) - s)
             bm == SubSeq(b1, 1, Len(b1) - s)
         IN NonEmptyOps(<<Op(DIFF_EQUAL, SubSeq(a, 1, p))>>)
            \o DiffMiddle(am, bm)
            \o NonEmptyOps(<<Op(DIFF_EQUAL, SubSeq(a1, Len(a1) - s + 1, Len(a1)))>>)


(***************************************************************************)
(* Markup.                                                                 *)
(***************************************************************************)
\* A text node.
TextNode(t) == [k |-> "text", t |-> t]

\* An injected span of class k whose text content is t.
Span(k, t) == [k |-> k, t |-> t]

\* A block element of an input document.
Element(tag, weight, texts) ==
    [tag |-> tag, cls |-> {}, weight |-> weight, src |-> "", alt |-> "",
     items |-> [i \in 1..Len(texts) |-> TextNode(texts[i])]]

\* Node.textContent of an element.
TextContent(el) == Concat([i \in 1..Len(el.items) |-> el.items[i].t])

\* textContent of a container holding the elements of html.
ContainerText(html) == Concat([i \in 1..Len(html) |-> TextContent(html[i])])

\* The text nodes a TreeWalker(SHOW_TEXT) visits in an element, in order,
\* without the whitespace-only ones (textContent.trim() is empty).
TextNodesOf(el) ==
    SelectSeq(el.items, LAMBDA it : it.k = "text" /\ Trim(it.t) # <<>>)

(***************************************************************************)
(* The texts and elements the model's documents are made of.               *)
(***************************************************************************)
T_ab_cd == <<"a", "b", " ", "c", "d">>

T_ab__cd == <<"a", "b", " ", " ", "c", "d">>

T_ab_ce == <<"a", "b", " ", "c", "e">>

T_ab_ == <<"a", "b", " ">>

T_ce_ == <<"c", "e", " ">>

T_Hello == <<"H", "e", "l", "l", "o">>

T_Hello_there == <<"H", "e", "l", "l", "o", " ", "t", "h", "e", "r", "e">>

\* <p>ab cd</p>
E_abcd == Element("p", "400", <<T_ab_cd>>)

\* <p>ab  cd</p>: E_abcd with a doubled inner space
E_abcdWide == Element("p", "400", <<T_ab__cd>>)

\* <p>ab ce</p>
E_abce == Element("p", "400", <<T_ab_ce>>)

\* <p>ab <u>ce </u></p>: two text nodes, a trailing space
E_abceSplit == Element("p", "400", <<T_ab_, T_ce_>>)

\* <p style="font-weight:700">ab cd</p>
E_abcdBold == Element("p", "700", <<T_ab_cd>>)

\* <p></p>
E_empty == Element("p", "400", <<>>)

\* <p>Hello</p>
E_Hello == Element("p", "400", <<T_Hello>>)

\* <p>Hello there</p>
E_HelloThere == Element("p", "400", <<T_Hello_there>>)

ElementPool ==
    {E_abcd, E_abcdWide, E_abce, E_abceSplit, E_abcdBold, E_empty,
     E_Hello, E_HelloThere}

\* An image: <img src=... alt=...>, an element without content.
Image(src, alt) ==
    [tag |-> "img", cls |-> {}, weight |-> "400", src |-> src, alt |-> alt,
     items |-> <<>>]

\* <img src="x.png">
E_imgX == Image("x.png", "")

\* <img src="y.png">
E_imgY == Image("y.png", "")

\* <img src="x.png" alt="chart">
E_imgXAlt == Image("x.png", "chart")

T_hello == <<"h", "e", "l", "l", "o">>

\* <p>hello</p>: E_Hello in lower case
E_helloLower == Element("p", "400", <<T_hello>>)

\* The elements of the documents of the format-preserving pipeline alone.
FormatPool ==
    {E_Hello, E_helloLower, E_HelloThere, E_abcd, E_abcdBold, E_abcdWide, E_empty}

\* <table>ab cd</table>: a table, with the text of its cells
E_tableAbcd == Element("table", "400", <<T_ab_cd>>)

\* <table>ab ce</table>
E_tableAbce == Element("table", "400", <<T_ab_ce>>)

\* The elements of the documents with images and tables.
ImagePool == {E_imgX, E_imgY, E_imgXAlt, E_tableAbcd, E_tableAbce, E_abcd, E_abce}

(***************************************************************************)
(* Shared utilities of both pipelines.                                     *)
(***************************************************************************)
\* extractPlainText(html): "" for an empty markup, else the text content of
\* a scratch container holding the markup.
extractPlainText(html) ==
    IF html = <<>> THEN <<>> ELSE ContainerText(html)

\* renderHtmlDifferences(diffs): the contents of the entries, joined.
renderHtmlDifferences(diffs) ==
    Concat([i \in 1..Len(diffs) |-> diffs[i].content])

\* getTextSimilarity with the length of the shorter text as the total.
SimilarityToShorter(text1, text2) ==
    IF text1 = <<>> /\ text2 = <<>> THEN <<1, 1>>
    ELSE IF text1 = <<>> \/ text2 = <<>> THEN <<0, 1>>
    ELSE <<LCSLen(text1, text2), Min(Len(text1), Len(text2))>>

\* getTextSimilarity(text1, text2), as the pair <<unchangedLength, totalLength>>
\* of the ratio it returns (1 is <<1, 1>>, 0 is <<0, 1>>).
getTextSimilarity(text1, text2) ==
    IF text1 = <<>> /\ text2 = <<>> THEN <<1, 1>>
    ELSE IF text1 = <<>> \/ text2 = <<>> THEN <<0, 1>>
    ELSE <<LCSLen(text1, text2), Max(Len(text1), Len(text2))>>

(***************************************************************************)
(* The exact-mutual pipeline: extraction and matching.                     *)
(***************************************************************************)
NULL == 0

\* The tags extractElementsWithDimensions selects.
ExactSelectors ==
    {"p", "h1", "h2", "h3", "h4", "h5", "h6", "div", "table", "tr", "td",
     "th", "ul", "ol", "li", "blockquote", "img", "figure", "section",
     "article", "span", "strong", "em", "b", "i"}

\* The unit extractElementsWithDimensions pushes for a selected element.
ExactUnit(el, index) ==
    [element |-> <<el>>, text |-> Trim(TextContent(el)), html |-> <<el>>,
     index |-> index, tagName |-> el.tag,
     isEmpty |-> (Trim(TextContent(el)) = <<>> /\ el.tag # "img"),
     isImage |-> el.tag = "img", isTable |-> el.tag = "table",
     preservedStyles |-> el.weight,
     highlight |-> "", mutualHtml |-> <<>>, placeholderFor |-> <<>>]

\* extractElementsWithDimensions(container) on a container whose children
\* are the elements of html, none nested in another.
extractElementsWithDimensions(html) ==
    LET picked == {i \in 1..Len(html) : html[i].tag \in ExactSelectors}
        Nth[n \in 0..Len(html)] ==
            IF n = 0 THEN <<>>
            ELSE IF n \in picked THEN Append(Nth[n - 1], ExactUnit(html[n], n))
                 ELSE Nth[n - 1]
    IN Nth[Len(html)]

areElementsExactlyIdentical(el1, el2) ==
    IF el1.tagName # el2.tagName THEN FALSE
    ELSE IF el1.isImage /\ el2.isImage
         THEN el1.element[1].src = el2.element[1].src
              /\ el1.element[1].alt = el2.element[1].alt
    ELSE IF el1.isTable /\ el2.isTable
         THEN el1.html = el2.html
    ELSE NormalizeWs(el1.text) = NormalizeWs(el2.text)

\* The fuzzy-match threshold of areElementsStructurallySimilar, in percent.
SimilarityThreshold == 70

\* areElementsStructurallySimilar with the comparison turned round:
\* similarity < thr / 100.
SimilarBelow(el1, el2, thr) ==
    IF el1.tagName # el2.tagName THEN FALSE
    ELSE IF el1.isImage \/ el2.isImage \/ el1.isTable \/ el2.isTable THEN FALSE
    ELSE LET sim == getTextSimilarity(el1.text, el2.text)
         IN sim[1] * 100 < thr * sim[2]

\* areElementsStructurallySimilar without the test that sets images and
\* tables apart.
SimilarAboveAnyKind(el1, el2, thr) ==
    IF el1.tagName # el2.tagName THEN FALSE
    ELSE LET sim == getTextSimilarity(el1.text, el2.text)
         IN sim[1] * 100 > thr * sim[2]

\* areElementsStructurallySimilar with the threshold as a parameter:
\* similarity > thr / 100.
SimilarAbove(el1, el2, thr) ==
    IF el1.tagName # el2.tagName THEN FALSE
    ELSE IF el1.isImage \/ el2.isImage \/ el1.isTable \/ el2.isTable THEN FALSE
    ELSE LET sim == getTextSimilarity(el1.text, el2.text)
         IN sim[1] * 100 > thr * sim[2]

areElementsStructurallySimilar(el1, el2) ==
    SimilarAbove(el1, el2, SimilarityThreshold)

\* The offset the final sort of createExactAlignment adds to a right index.
RightOnlyOffset == 10000

Record(l, r, type) == [leftIndex |-> l, rightIndex |-> r, matchType |-> type]

\* First pass of createExactAlignment: the pairs (leftIndex, rightIndex) are
\* visited row by row; a pair is skipped when either index is used.
RECURSIVE ExactPass(_, _, _, _)
ExactPass(L, R, k, st) ==
    IF k > Len(L) * Len(R) THEN st
    ELSE LET i == ((k - 1) \div Len(R)) + 1
             j == ((k - 1) % Len(R)) + 1
         IN IF i \in st.leftUsed \/ j \in st.rightUsed
            THEN ExactPass(L, R, k + 1, st)
            ELSE IF areElementsExactlyIdentical(L[i], R[j])
            THEN ExactPass(L, R, k + 1,
                     [alignment |-> Append(st.alignment, Record(i, j, "match")),
                      leftUsed |-> st.leftUsed \cup {i},
                      rightUsed |-> st.rightUsed \cup {j}])
            ELSE ExactPass(L, R, k + 1, st)

\* Second pass, inner loop for left unit i: only rightUsed is tested for
\* each right unit j.
RECURSIVE FuzzyRow(_, _, _, _, _, _)
FuzzyRow(L, R, thr, i, j, st) ==
    IF j > Len(R) THEN st
    ELSE IF j \in st.rightUsed THEN FuzzyRow(L, R, thr, i, j + 1, st)
    ELSE IF SimilarAbove(L[i], R[j], thr)
    THEN FuzzyRow(L, R, thr, i, j + 1,
             [alignment |-> Append(st.alignment, Record(i, j, "match")),
              leftUsed |-> st.leftUsed \cup {i},
              rightUsed |-> st.rightUsed \cup {j}])
    ELSE FuzzyRow(L, R, thr, i, j + 1, st)

\* Second pass, outer loop: a left unit used before its turn is skipped.
RECURSIVE FuzzyPass(_, _, _, _, _)
FuzzyPass(L, R, thr, i, st) ==
    IF i > Len(L) THEN st
    ELSE IF i \in st.leftUsed THEN FuzzyPass(L, R, thr, i + 1, st)
    ELSE FuzzyPass(L, R, thr, i + 1, FuzzyRow(L, R, thr, i, 1, st))

\* The third pass with the index of an unmatched right unit stored in both
\* index fields of its record.
ResidualPassBothIndexes(L, R, st) ==
    LET lefts  == SelectSeq([i \in 1..Len(L) |-> Record(i, NULL, "leftOnly")],
                            LAMBDA a : a.leftIndex \notin st.leftUsed)
        rights == SelectSeq([j \in 1..Len(R) |-> Record(j, j, "rightOnly")],
                            LAMBDA a : a.rightIndex \notin st.rightUsed)
    IN st.alignment \o lefts \o rights

\* Third pass: the unmatched left units, then the unmatched right units.
ResidualPass(L, R, st) ==
    LET lefts  == SelectSeq([i \in 1..Len(L) |-> Record(i, NULL, "leftOnly")],
                            LAMBDA a : a.leftIndex \notin st.leftUsed)
        rights == SelectSeq([j \in 1..Len(R) |-> Record(NULL, j, "rightOnly")],
                            LAMBDA a : a.rightIndex \notin st.rightUsed)
    IN st.alignment \o lefts \o rights

\* The position the final sort compares.
SortPos(a) ==
    IF a.leftIndex # NULL THEN a.leftIndex ELSE a.rightIndex + RightOnlyOffset

\* Array.prototype.sort with the comparator aPos - bPos: a stable sort.
RECURSIVE SortByPos(_)
SortByPos(as) ==
    IF as = <<>> THEN <<>>
    ELSE LET rest == SortByPos(Tail(as))
             before == SelectSeq(rest, LAMBDA b : SortPos(b) < SortPos(Head(as)))
             after  == SelectSeq(rest, LAMBDA b : SortPos(b) >= SortPos(Head(as)))
         IN before \o <<Head(as)>> \o after

\* createExactAlignment with the fuzzy threshold as a parameter.
AlignmentAbove(L, R, thr) ==
    LET st0 == [alignment |-> <<>>, leftUsed |-> {}, rightUsed |-> {}]
        st1 == ExactPass(L, R, 1, st0)
        st2 == FuzzyPass(L, R, thr, 1, st1)
    IN SortByPos(ResidualPass(L, R, st2))

createExactAlignment(leftElements, rightElements) ==
    AlignmentAbove(leftElements, rightElements, SimilarityThreshold)

(***************************************************************************)
(* The exact-mutual pipeline: character diff rendering.                    *)
(***************************************************************************)
\* Length of the preview in an inline placeholder of the exact-mutual pipeline.
ExactInlinePreviewLen == 30

\* Length of the preview in a whole-unit placeholder of the exact-mutual pipeline.
ExactUnitPreviewLen == 50

\* The indexes, among the items of el, of the text nodes the walker keeps.
KeptTextNodes(el) ==
    SelectSeq([i \in 1..Len(el.items) |-> i],
              LAMBDA i : el.items[i].k = "text" /\ Trim(el.items[i].t) # <<>>)

\* advanceTextPosition(length) of applyExactMutualDiffToHtml.
RECURSIVE advanceTextPosition(_, _, _, _)
advanceTextPosition(el, nodes, pos, remaining) ==
    IF ~(remaining > 0 /\ pos.node <= Len(nodes)) THEN pos
    ELSE LET availableInNode == Len(el.items[nodes[pos.node]].t) - pos.offset
         IN IF remaining <= availableInNode
            THEN [pos EXCEPT !.offset = pos.offset + remaining]
            ELSE advanceTextPosition(el, nodes,
                     [pos EXCEPT !.node = pos.node + 1, !.offset = 0],
                     remaining - availableInNode)

\* insertHighlightedTextWithExactFormatting / insertPlaceholderTextWithExactSpacing:
\* the span goes right after the current text node (before what was inserted
\* there earlier); nothing happens past the last text node.
InsertAfterCurrent(nodes, pos, span) ==
    IF pos.node <= Len(nodes)
    THEN [pos EXCEPT !.inserted[nodes[pos.node]] = <<span>> \o @]
    ELSE pos

\* The span insertPlaceholderTextWithExactSpacing makes for the text of an
\* operation op of the other side.
ExactInlinePlaceholder(op, text) ==
    Span(IF op = DIFF_INSERT THEN "mutual-inline-placeholder-added"
         ELSE "mutual-inline-placeholder-removed",
         <<"[">> \o Preview(text, ExactInlinePreviewLen) \o <<"]">>)

\* One step of the diffs.forEach of applyExactMutualDiffToHtml.
ExactDiffStep(el, nodes, pos, d, side) ==
    IF d.op = DIFF_EQUAL
    THEN advanceTextPosition(el, nodes, pos, Len(d.text))
    ELSE IF (d.op = DIFF_INSERT /\ side = "right") \/ (d.op = DIFF_DELETE /\ side = "left")
    THEN InsertAfterCurrent(nodes, pos,
             Span(IF d.op = DIFF_INSERT THEN "mutual-inline-added"
                  ELSE "mutual-inline-removed", d.text))
    ELSE InsertAfterCurrent(nodes, pos, ExactInlinePlaceholder(d.op, d.text))

RECURSIVE ExactDiffLoop(_, _, _, _, _)
ExactDiffLoop(el, nodes, pos, diffs, side) ==
    IF diffs = <<>> THEN pos
    ELSE ExactDiffLoop(el, nodes, ExactDiffStep(el, nodes, pos, Head(diffs), side),
                       Tail(diffs), side)

\* applyExactMutualDiffToHtml(originalHtml, diffs, side, preservedStyles):
\* the items of the element after the spans were inserted.
applyExactMutualDiffToHtml(el, diffs, side) ==
    LET nodes == KeptTextNodes(el)
        pos0  == [node |-> 1, offset |-> 0,
                  inserted |-> [i \in 1..Len(el.items) |-> <<>>]]
        pos   == ExactDiffLoop(el, nodes, pos0, diffs, side)
    IN Concat([i \in 1..Len(el.items) |-> <<el.items[i]>> \o pos.inserted[i]])

\* performWordLevelMutualDiff(leftHtml, rightHtml, leftStyles, rightStyles)
performWordLevelMutualDiff(leftEl, rightEl) ==
    LET leftText  == extractPlainText(<<leftEl>>)
        rightText == extractPlainText(<<rightEl>>)
        diffs     == DiffSemantic(leftText, rightText)
    IN IF leftText = rightText
       THEN [leftHighlighted |-> leftEl.items, rightHighlighted |-> rightEl.items]
       ELSE [leftHighlighted  |-> applyExactMutualDiffToHtml(leftEl, diffs, "left"),
             rightHighlighted |-> applyExactMutualDiffToHtml(rightEl, diffs, "right")]

(***************************************************************************)
(* The exact-mutual pipeline: comparison, placeholders, assembly.          *)
(***************************************************************************)
createExactSpacePlaceholder(originalElement, changeType) ==
    [element |-> <<>>, text |-> <<>>, html |-> <<>>, index |-> NULL,
     tagName |-> originalElement.tagName, isEmpty |-> TRUE,
     isImage |-> originalElement.isImage, isTable |-> originalElement.isTable,
     preservedStyles |-> originalElement.preservedStyles,
     highlight |-> IF changeType = "added" THEN "placeholder-added"
                   ELSE "placeholder-removed",
     mutualHtml |-> <<>>, placeholderFor |-> <<originalElement>>]

\* A matched pair whose content differs, with its highlighted markups d.
ExactModifiedPair(acc, l, r, d) ==
    [acc EXCEPT
       !.leftProcessed = Append(@, [l EXCEPT !.highlight = "modified",
                                    !.mutualHtml = <<d.leftHighlighted>>]),
       !.rightProcessed = Append(@, [r EXCEPT !.highlight = "modified",
                                     !.mutualHtml = <<d.rightHighlighted>>]),
       !.modifications = @ + 1]

\* performExactElementComparison without the placeholder of a leftOnly
\* record: the removed unit is pushed on the left and nothing on the right.
ExactCompareRecordNoPlaceholder(leftElements, rightElements, a, acc) ==
    IF a.matchType = "match"
    THEN LET l == leftElements[a.leftIndex]
             r == rightElements[a.rightIndex]
         IN IF areElementsExactlyIdentical(l, r)
            THEN [acc EXCEPT
                    !.leftProcessed = Append(@, [l EXCEPT !.highlight = "none"]),
                    !.rightProcessed = Append(@, [r EXCEPT !.highlight = "none"])]
            ELSE ExactModifiedPair(acc, l, r,
                     performWordLevelMutualDiff(l.html[1], r.html[1]))
    ELSE IF a.matchType = "leftOnly"
    THEN LET l == leftElements[a.leftIndex]
         IN [acc EXCEPT
               !.leftProcessed = Append(@, [l EXCEPT !.highlight = "removed"]),
               !.deletions = @ + 1]
    ELSE LET r == rightElements[a.rightIndex]
         IN [acc EXCEPT
               !.leftProcessed = Append(@, createExactSpacePlaceholder(r, "added")),
               !.rightProcessed = Append(@, [r EXCEPT !.highlight = "added"]),
               !.additions = @ + 1]

\* What one alignment record adds in performExactElementComparison.
ExactCompareRecord(leftElements, rightElements, a, acc) ==
    IF a.matchType = "match"
    THEN LET l == leftElements[a.leftIndex]
             r == rightElements[a.rightIndex]
         IN IF areElementsExactlyIdentical(l, r)
            THEN [acc EXCEPT
                    !.leftProcessed = Append(@, [l EXCEPT !.highlight = "none"]),
                    !.rightProcessed = Append(@, [r EXCEPT !.highlight = "none"])]
            ELSE ExactModifiedPair(acc, l, r,
                     performWordLevelMutualDiff(l.html[1], r.html[1]))
    ELSE IF a.matchType = "leftOnly"
    THEN LET l == leftElements[a.leftIndex]
         IN [acc EXCEPT
               !.leftProcessed = Append(@, [l EXCEPT !.highlight = "removed"]),
               !.rightProcessed = Append(@, createExactSpacePlaceholder(l, "removed")),
               !.deletions = @ + 1]
    ELSE LET r == rightElements[a.rightIndex]
         IN [acc EXCEPT
               !.leftProcessed = Append(@, createExactSpacePlaceholder(r, "added")),
               !.rightProcessed = Append(@, [r EXCEPT !.highlight = "added"]),
               !.additions = @ + 1]

RECURSIVE ExactCompareLoop(_, _, _, _)
ExactCompareLoop(leftElements, rightElements, as, acc) ==
    IF as = <<>> THEN acc
    ELSE ExactCompareLoop(leftElements, rightElements, Tail(as),
             ExactCompareRecord(leftElements, rightElements, Head(as), acc))

\* The object performExactElementComparison would return if changes were
\* the sum of additions and deletions only.
ExactComparisonResultNoModified(acc) ==
    [leftProcessed |-> acc.leftProcessed,
     rightProcessed |-> acc.rightProcessed,
     summary |-> [additions |-> acc.additions, deletions |-> acc.deletions,
                  changes |-> acc.additions + acc.deletions]]

\* The object performExactElementComparison returns, from its counters.
ExactComparisonResult(acc) ==
    [leftProcessed |-> acc.leftProcessed,
     rightProcessed |-> acc.rightProcessed,
     summary |-> [additions |-> acc.additions, deletions |-> acc.deletions,
                  changes |-> acc.additions + acc.deletions + acc.modifications]]

\* performExactElementComparison on the alignment of the two unit sequences.
ExactComparisonOf(leftElements, rightElements, as) ==
    ExactComparisonResult(
        ExactCompareLoop(leftElements, rightElements, as,
            [leftProcessed |-> <<>>, rightProcessed |-> <<>>,
             additions |-> 0, deletions |-> 0, modifications |-> 0]))

performExactElementComparison(leftElements, rightElements) ==
    ExactComparisonOf(leftElements, rightElements,
                      createExactAlignment(leftElements, rightElements))

\* createExactDimensionPlaceholder(originalElement, highlightType)
createExactDimensionPlaceholder(originalElement, highlightType) ==
    LET added == highlightType = "placeholder-added"
        label ==
            IF originalElement.isImage
            THEN <<IF added THEN "[Image Added]" ELSE "[Image Removed]">>
            ELSE IF originalElement.isTable
            THEN <<IF added THEN "[Table Added]" ELSE "[Table Removed]">>
            ELSE <<IF added THEN "[Content Added: \"" ELSE "[Content Removed: \"">>
                 \o Preview(originalElement.text, ExactUnitPreviewLen) \o <<"\"]">>
    IN [tag |-> originalElement.tagName,
        cls |-> {"mutual-placeholder", highlightType},
        weight |-> originalElement.preservedStyles, src |-> "", alt |-> "",
        items |-> <<Span("placeholder-label", label)>>]

\* The element applyExactMutualHighlighting appends for one processed unit.
\* A mutualHtml replaces the content of the clone; the wrapper tag it
\* repeats inside the clone is not modelled.
ExactRendered(element) ==
    LET newElement ==
            IF element.element # <<>> THEN element.element[1]
            ELSE IF element.placeholderFor # <<>>
            THEN createExactDimensionPlaceholder(element.placeholderFor[1],
                                                 element.highlight)
            ELSE Element(element.tagName, "400", <<>>)
        withHtml ==
            IF element.mutualHtml # <<>>
            THEN [newElement EXCEPT !.items = element.mutualHtml[1]]
            ELSE newElement
    IN IF element.highlight = "added"
       THEN [withHtml EXCEPT !.cls = @ \cup {"mutual-added"}]
       ELSE IF element.highlight = "removed"
       THEN [withHtml EXCEPT !.cls = @ \cup {"mutual-removed"}]
       ELSE IF element.highlight = "modified"
       THEN [withHtml EXCEPT !.cls = @ \cup {"mutual-modified"}]
       ELSE IF element.highlight \in {"placeholder-added", "placeholder-removed"}
       THEN newElement
       ELSE withHtml

\* applyExactMutualHighlighting(container, processedElements, side): the
\* children of the container afterwards.
applyExactMutualHighlighting(processedElements) ==
    [i \in 1..Len(processedElements) |-> ExactRendered(processedElements[i])]

\* One line of generateDetailedMutualReport, for index i.
ExactReportLine(leftElements, rightElements, i) ==
    IF i <= Len(leftElements) /\ i <= Len(rightElements)
    THEN [v1 |-> i, v2 |-> i,
          status |-> IF areElementsExactlyIdentical(leftElements[i], rightElements[i])
                     THEN "UNCHANGED" ELSE "MODIFIED"]
    ELSE IF i <= Len(leftElements)
    THEN [v1 |-> i, v2 |-> NULL, status |-> "REMOVED"]
    ELSE [v1 |-> NULL, v2 |-> i, status |-> "ADDED"]

\* generateDetailedMutualReport(leftElements, rightElements)
generateDetailedMutualReport(leftElements, rightElements) ==
    LET maxElements == Max(Len(leftElements), Len(rightElements))
        lines == [i \in 1..maxElements |->
                    ExactReportLine(leftElements, rightElements, i)]
        unitAt(i) == IF i <= Len(leftElements) THEN leftElements[i]
                     ELSE rightElements[i]
        other(i) == IF i <= Len(rightElements) THEN rightElements[i]
                    ELSE leftElements[i]
    IN [lines  |-> lines,
        tables |-> SelectSeq(lines, LAMBDA ln :
                       unitAt(Max(ln.v1, ln.v2)).isTable \/ other(Max(ln.v1, ln.v2)).isTable),
        images |-> SelectSeq(lines, LAMBDA ln :
                       unitAt(Max(ln.v1, ln.v2)).isImage \/ other(Max(ln.v1, ln.v2)).isImage)]

EmptyReport == [lines |-> <<>>, tables |-> <<>>, images |-> <<>>]

ZeroSummary == [additions |-> 0, deletions |-> 0, changes |-> 0]

EqualEntry(content) == [type |-> "equal", content |-> content]

\* Elements that are serialized without their children.
VoidTags == {"img"}

\* container.innerHTML: the markup of the children of the container; the
\* children appended to a void element are not part of it.
innerHTML(children) ==
    [i \in 1..Len(children) |->
        IF children[i].tag \in VoidTags
        THEN [children[i] EXCEPT !.items = <<>>]
        ELSE children[i]]

\* The object performExactMutualComparison returns, from the comparison cmp
\* of the units and their detailed report.
ExactResult(cmp, detailed) ==
    [leftDiffs  |-> <<EqualEntry(innerHTML(applyExactMutualHighlighting(cmp.leftProcessed)))>>,
     rightDiffs |-> <<EqualEntry(innerHTML(applyExactMutualHighlighting(cmp.rightProcessed)))>>,
     summary    |-> cmp.summary,
     detailed   |-> detailed]

\* performExactMutualComparison after the extraction of the units.
ExactComparisonOfUnits(leftElements, rightElements, reportThrows) ==
    ExactResult(performExactElementComparison(leftElements, rightElements),
                IF reportThrows THEN EmptyReport
                ELSE generateDetailedMutualReport(leftElements, rightElements))

\* performExactMutualComparison(leftHtml, rightHtml); reportThrows says
\* whether generateDetailedMutualReport fails inside its own try block.
performExactMutualComparison(lHtml, rHtml, reportThrows) ==
    ExactComparisonOfUnits(extractElementsWithDimensions(lHtml),
                           extractElementsWithDimensions(rHtml), reportThrows)

(***************************************************************************)
(* The format-preserving pipeline (src/src/utils/textComparison.js).       *)
(***************************************************************************)
\* The tags extractFormattedElements and applyFormattingPreservingHighlights select.
FormatSelectors == {"p", "h1", "h2", "h3", "h4", "h5", "h6", "li", "td", "th", "div"}

\* Length of the preview in a placeholder of the format-preserving pipeline.
FormatPreviewLen == 100

\* The positions in html of the elements querySelectorAll returns.
ContentElements(html) ==
    SelectSeq([i \in 1..Len(html) |-> i], LAMBDA i : html[i].tag \in FormatSelectors)

FormattingContext(el) ==
    [tagName |-> el.tag, className |-> el.cls, computedStyles |-> el.weight]

\* The unit extractFormattedElements pushes for a selected element.
FormatUnit(el, index) ==
    [element |-> <<el>>, text |-> Trim(TextContent(el)), index |-> index,
     isEmpty |-> Trim(TextContent(el)) = <<>>,
     formattingContext |-> FormattingContext(el),
     highlight |-> "", processedContent |-> <<>>,
     placeholderContent |-> <<>>, placeholderFormatting |-> <<>>]

\* extractFormattedElements(container) on a container whose children are
\* the elements of html, none nested in another and none in a table.
extractFormattedElements(html) ==
    LET content == ContentElements(html)
    IN [k \in 1..Len(content) |-> FormatUnit(html[content[k]], k)]

areTextsEqual(text1, text2) ==
    ToLowerCase(CollapseWs(Trim(text1))) = ToLowerCase(CollapseWs(Trim(text2)))

hasFormattingDifferences(leftElement, rightElement) ==
    leftElement.formattingContext.computedStyles
        # rightElement.formattingContext.computedStyles

createPlaceholderElement(sourceElement, type) ==
    [element |-> <<>>, text |-> <<>>, index |-> -1, isEmpty |-> TRUE,
     formattingContext |-> sourceElement.formattingContext,
     highlight |-> IF type = "added" THEN "placeholder-added" ELSE "placeholder-removed",
     processedContent |-> <<>>,
     placeholderContent |-> <<sourceElement.text>>,
     placeholderFormatting |-> <<sourceElement.formattingContext>>]

\* newContent += markup, where a text segment joins a text before it.
AppendContent(newContent, item) ==
    IF item.k = "text" /\ newContent # <<>> /\ newContent[Len(newContent)].k = "text"
    THEN [newContent EXCEPT ![Len(newContent)].t = @ \o item.t]
    ELSE IF item.k = "text" /\ item.t = <<>> THEN newContent
    ELSE Append(newContent, item)

\* What applyInlineHighlighting appends for one operation and node segment.
InlineMarkup(op, side, nodeSegment) ==
    IF op = DIFF_EQUAL THEN TextNode(nodeSegment)
    ELSE IF op = DIFF_INSERT
    THEN IF side = "right" THEN Span("diff-highlight-added", nodeSegment)
         ELSE Span("diff-placeholder-added", <<"[", "+">> \o nodeSegment \o <<"]">>)
    ELSE IF side = "left" THEN Span("diff-highlight-removed", nodeSegment)
         ELSE Span("diff-placeholder-removed", <<"[", "-">> \o nodeSegment \o <<"]">>)

\* The while loop of applyInlineHighlighting for one text node.  Its guard
\* textOffset < textOffset + nodeLength holds for every kept node, and
\* startInNode = max(0, textOffset - (textOffset + currentOffset)) is 0.
RECURSIVE InlineNodeLoop(_, _, _, _)
InlineNodeLoop(nodeText, diffs, side, st) ==
    IF ~(st.diffIndex <= Len(diffs) /\ Len(nodeText) > 0) THEN st
    ELSE LET d          == diffs[st.diffIndex]
             diffLength == Len(d.text)
             endInNode  == Min(Len(nodeText), diffLength)
             segment    == SubSeq(nodeText, 1, endInNode)
         IN IF diffLength <= st.currentOffset
            THEN InlineNodeLoop(nodeText, diffs, side,
                     [st EXCEPT !.diffIndex = @ + 1])
            ELSE InlineNodeLoop(nodeText, diffs, side,
                     [diffIndex |-> IF endInNode >= Len(nodeText)
                                    THEN st.diffIndex + 1 ELSE st.diffIndex,
                      currentOffset |-> endInNode,
                      newContent |-> AppendContent(st.newContent,
                                         InlineMarkup(d.op, side, segment))])

\* The textNodes.forEach of applyInlineHighlighting: diffIndex is shared by
\* the nodes, currentOffset and newContent start afresh in each.
RECURSIVE InlineNodes(_, _, _, _, _)
InlineNodes(items, i, diffs, side, diffIndex) ==
    IF i > Len(items) THEN <<>>
    ELSE IF ~(items[i].k = "text" /\ Trim(items[i].t) # <<>>)
    THEN <<items[i]>> \o InlineNodes(items, i + 1, diffs, side, diffIndex)
    ELSE LET st == InlineNodeLoop(items[i].t, diffs, side,
                       [diffIndex |-> diffIndex, currentOffset |-> 0,
                        newContent |-> <<>>])
         IN st.newContent \o InlineNodes(items, i + 1, diffs, side, st.diffIndex)

\* applyInlineHighlighting(originalHtml, diffs, side, formatting): the items
\* of the unit afterwards (the wrapper span of a replaced node is not modelled).
applyInlineHighlighting(items, diffs, side) ==
    InlineNodes(items, 1, diffs, side, 1)

\* performInlineWordDiff(leftHtml, rightHtml, leftFormatting, rightFormatting)
performInlineWordDiff(leftEl, rightEl) ==
    LET diffs == DiffSemantic(TextContent(leftEl), TextContent(rightEl))
    IN [leftHighlighted  |-> applyInlineHighlighting(leftEl.items, diffs, "left"),
        rightHighlighted |-> applyInlineHighlighting(rightEl.items, diffs, "right")]

\* An index-aligned pair whose texts differ, with its highlighted markups d.
FormatModifiedPair(acc, l, r, d) ==
    [acc EXCEPT
       !.leftProcessed = Append(@, [l EXCEPT !.highlight = "modified",
                                    !.processedContent = <<d.leftHighlighted>>]),
       !.rightProcessed = Append(@, [r EXCEPT !.highlight = "modified",
                                     !.processedContent = <<d.rightHighlighted>>]),
       !.additions = @ + 1,
       !.deletions = @ + 1]

\* One iteration of the loop of performElementComparison, for index i.
FormatCompareAt(leftElements, rightElements, i, acc) ==
    IF i <= Len(leftElements) /\ i <= Len(rightElements)
    THEN LET l == leftElements[i]
             r == rightElements[i]
         IN IF l.isEmpty /\ r.isEmpty
            THEN [acc EXCEPT
                    !.leftProcessed = Append(@, [l EXCEPT !.highlight = "none"]),
                    !.rightProcessed = Append(@, [r EXCEPT !.highlight = "none"])]
            ELSE IF l.isEmpty /\ ~r.isEmpty
            THEN [acc EXCEPT
                    !.leftProcessed = Append(@, [l EXCEPT
                        !.highlight = "placeholder-added",
                        !.placeholderContent = <<r.text>>,
                        !.placeholderFormatting = <<r.formattingContext>>]),
                    !.rightProcessed = Append(@, [r EXCEPT !.highlight = "added"]),
                    !.additions = @ + 1]
            ELSE IF ~l.isEmpty /\ r.isEmpty
            THEN [acc EXCEPT
                    !.leftProcessed = Append(@, [l EXCEPT !.highlight = "removed"]),
                    !.rightProcessed = Append(@, [r EXCEPT
                        !.highlight = "placeholder-removed",
                        !.placeholderContent = <<l.text>>,
                        !.placeholderFormatting = <<l.formattingContext>>]),
                    !.deletions = @ + 1]
            ELSE IF areTextsEqual(l.text, r.text)
            THEN IF hasFormattingDifferences(l, r)
                 THEN [acc EXCEPT
                         !.leftProcessed = Append(@, [l EXCEPT !.highlight = "format-changed"]),
                         !.rightProcessed = Append(@, [r EXCEPT !.highlight = "format-changed"]),
                         !.additions = @ + 1]
                 ELSE [acc EXCEPT
                         !.leftProcessed = Append(@, [l EXCEPT !.highlight = "none"]),
                         !.rightProcessed = Append(@, [r EXCEPT !.highlight = "none"])]
            ELSE FormatModifiedPair(acc, l, r,
                     performInlineWordDiff(l.element[1], r.element[1]))
    ELSE IF i <= Len(leftElements)
    THEN [acc EXCEPT
            !.leftProcessed = Append(@, [leftElements[i] EXCEPT !.highlight = "removed"]),
            !.rightProcessed = Append(@, createPlaceholderElement(leftElements[i], "removed")),
            !.deletions = @ + 1]
    ELSE [acc EXCEPT
            !.leftProcessed = Append(@, createPlaceholderElement(rightElements[i], "added")),
            !.rightProcessed = Append(@, [rightElements[i] EXCEPT !.highlight = "added"]),
            !.additions = @ + 1]

RECURSIVE FormatCompareLoop(_, _, _, _)
FormatCompareLoop(leftElements, rightElements, i, acc) ==
    IF i > Max(Len(leftElements), Len(rightElements)) THEN acc
    ELSE FormatCompareLoop(leftElements, rightElements, i + 1,
             FormatCompareAt(leftElements, rightElements, i, acc))

\* The object performElementComparison returns, from its counters.
FormatComparisonResult(acc) ==
    [leftProcessed |-> acc.leftProcessed,
     rightProcessed |-> acc.rightProcessed,
     summary |-> [additions |-> acc.additions, deletions |-> acc.deletions,
                  changes |-> acc.additions + acc.deletions]]

performElementComparison(leftElements, rightElements) ==
    FormatComparisonResult(
        FormatCompareLoop(leftElements, rightElements, 1,
            [leftProcessed |-> <<>>, rightProcessed |-> <<>>,
             additions |-> 0, deletions |-> 0]))

\* createFormattedPlaceholder(content, formatting, type)
createFormattedPlaceholder(content, formatting, type) ==
    [tag |-> formatting.tagName,
     cls |-> formatting.className \cup {IF type = "added" THEN "git-placeholder-added"
                                        ELSE "git-placeholder-removed"},
     weight |-> formatting.computedStyles, src |-> "", alt |-> "",
     items |-> <<TextNode(<<IF type = "added" THEN "[Content added: \""
                            ELSE "[Content removed: \"">>
                          \o Preview(content, FormatPreviewLen) \o <<"\"]">>)>>]

\* The switch of applyFormattingPreservingHighlights on one target element.
FormatHighlighted(targetElement, processedElement) ==
    LET withContent ==
            IF processedElement.processedContent # <<>>
            THEN [targetElement EXCEPT !.items = processedElement.processedContent[1]]
            ELSE targetElement
        h == processedElement.highlight
    IN IF h = "added" THEN [withContent EXCEPT !.cls = @ \cup {"git-element-added"}]
       ELSE IF h = "removed" THEN [withContent EXCEPT !.cls = @ \cup {"git-element-removed"}]
       ELSE IF h = "modified" THEN [withContent EXCEPT !.cls = @ \cup {"git-element-modified"}]
       ELSE IF h = "placeholder-added"
       THEN createFormattedPlaceholder(processedElement.placeholderContent[1],
                processedElement.placeholderFormatting[1], "added")
       ELSE IF h = "placeholder-removed"
       THEN createFormattedPlaceholder(processedElement.placeholderContent[1],
                processedElement.placeholderFormatting[1], "removed")
       ELSE IF h = "format-changed"
       THEN [targetElement EXCEPT !.cls = @ \cup {"git-element-format-changed"}]
       ELSE withContent

\* applyFormattingPreservingHighlights(container, processedElements): the
\* children of the cloned container afterwards.  Processed unit k goes to
\* contentElements[k]; a unit without a target element is skipped.
applyFormattingPreservingHighlights(html, processedElements) ==
    LET content == ContentElements(html)
        unitOf(i) == CHOOSE k \in 1..Len(content) : content[k] = i
    IN [i \in 1..Len(html) |->
          IF html[i].tag \in FormatSelectors /\ unitOf(i) <= Len(processedElements)
          THEN FormatHighlighted(html[i], processedElements[unitOf(i)])
          ELSE html[i]]

\* One line of generateFormattedDetailedReport, for index i.
FormatReportLine(leftElements, rightElements, i) ==
    IF i <= Len(leftElements) /\ i <= Len(rightElements)
    THEN [v1 |-> i, v2 |-> i,
          status |-> IF areTextsEqual(leftElements[i].text, rightElements[i].text)
                     THEN IF hasFormattingDifferences(leftElements[i], rightElements[i])
                          THEN "FORMATTING-ONLY" ELSE "UNCHANGED"
                     ELSE "MODIFIED"]
    ELSE IF i <= Len(leftElements)
    THEN [v1 |-> i, v2 |-> NULL, status |-> "REMOVED"]
    ELSE [v1 |-> NULL, v2 |-> i, status |-> "ADDED"]

generateFormattedDetailedReport(leftElements, rightElements) ==
    [lines  |-> [i \in 1..Max(Len(leftElements), Len(rightElements)) |->
                   FormatReportLine(leftElements, rightElements, i)],
     tables |-> <<>>, images |-> <<>>]

\* The object performFormatPreservingComparison returns, from the
\* comparison cmp of the units and their detailed report.
FormatResult(lHtml, rHtml, cmp, detailed) ==
    [leftDiffs  |-> <<EqualEntry(applyFormattingPreservingHighlights(lHtml, cmp.leftProcessed))>>,
     rightDiffs |-> <<EqualEntry(applyFormattingPreservingHighlights(rHtml, cmp.rightProcessed))>>,
     summary    |-> cmp.summary,
     detailed   |-> detailed]

\* performFormatPreservingComparison after the extraction of the units.
FormatComparisonOfUnits(lHtml, rHtml, leftElements, rightElements, reportThrows) ==
    FormatResult(lHtml, rHtml,
                 performElementComparison(leftElements, rightElements),
                 IF reportThrows THEN EmptyReport
                 ELSE generateFormattedDetailedReport(leftElements, rightElements))

\* performFormatPreservingComparison(leftHtml, rightHtml); reportThrows says
\* whether generateFormattedDetailedReport fails inside its own try block.
performFormatPreservingComparison(lHtml, rHtml, reportThrows) ==
    FormatComparisonOfUnits(lHtml, rHtml, extractFormattedElements(lHtml),
                            extractFormattedElements(rHtml), reportThrows)

(***************************************************************************)
(* The final sort of createExactAlignment on long documents.  The records  *)
(* followed are those of a few positions of the left document and of the   *)
(* unmatched right units; the sort is stable and compares two records by   *)
(* their own fields only, so it orders these records among themselves as   *)
(* it does inside the whole list.                                          *)
(***************************************************************************)
\* The positions of the left document that are followed.
SampledLeft == {1, 2, RightOnlyOffset + 1, RightOnlyOffset + 2}

\* What happens to a followed left unit: it is matched in the first pass,
\* matched in the second pass, or left unmatched ("skip": not followed).
Fates == {"exact", "fuzzy", "leftOnly", "skip"}

\* The records of the left positions with the given fate, by position; a
\* matched unit at position i has the right unit MaxSortRight + i as its
\* partner.
RECURSIVE RecordsWithFate(_, _, _)
RecordsWithFate(fate, f, todo) ==
    IF todo = {} THEN <<>>
    ELSE LET i == CHOOSE x \in todo : \A y \in todo : x <= y
             rest == RecordsWithFate(fate, f, todo \ {i})
         IN IF fate[i] # f THEN rest
            ELSE IF f = "leftOnly" THEN <<Record(i, NULL, "leftOnly")>> \o rest
            ELSE <<Record(i, MaxSortRight + i, "match")>> \o rest

\* The records of the unmatched right units, by position.
RECURSIVE RightOnlyRecords(_)
RightOnlyRecords(todo) ==
    IF todo = {} THEN <<>>
    ELSE LET j == CHOOSE x \in todo : \A y \in todo : x <= y
         IN <<Record(NULL, j, "rightOnly")>> \o RightOnlyRecords(todo \ {j})

\* The list the three passes have pushed when the sort starts.
PushedRecords(fate, rights) ==
    RecordsWithFate(fate, "exact", SampledLeft)
    \o RecordsWithFate(fate, "fuzzy", SampledLeft)
    \o RecordsWithFate(fate, "leftOnly", SampledLeft)
    \o RightOnlyRecords(rights)

(***************************************************************************)
(* The navigation minimap (src/unnamed/part_001).                          *)
(***************************************************************************)
\* The class names of the selectors of CHANGE_SELECTORS.
CHANGE_SELECTORS ==
    {"git-line-added", "git-line-removed", "git-line-modified",
     "git-line-placeholder", "git-inline-added", "git-inline-removed",
     "placeholder-added", "placeholder-removed"}

\* The classes of the spans among items that CHANGE_SELECTORS matches.
MatchedSpans(items) ==
    LET spans == SelectSeq(items, LAMBDA it : it.k \in CHANGE_SELECTORS)
    IN [n \in 1..Len(spans) |-> {spans[n].k}]

\* container.querySelectorAll(CHANGE_SELECTORS.join(',')) on a container
\* whose children are the elements of html: the class sets of the children
\* and of the spans inside them that match, in document order.
QueryChanges(html) ==
    Concat([i \in 1..Len(html) |->
               (IF html[i].cls \cap CHANGE_SELECTORS # {}
                THEN <<html[i].cls>> ELSE <<>>)
               \o MatchedSpans(html[i].items)])

\* The change type collectUnifiedMarkers gives an element with classes cls.
MarkerType(cls) ==
    IF cls \cap {"git-line-added", "git-inline-added", "placeholder-added"} # {}
    THEN "added"
    ELSE IF cls \cap {"git-line-removed", "git-inline-removed", "placeholder-removed"} # {}
    THEN "removed"
    ELSE IF "git-line-modified" \in cls THEN "modified"
    ELSE IF "git-line-placeholder" \in cls THEN "empty-space"
    ELSE "unknown"

\* The markers collectUnifiedMarkers pushes for one container.
MarkersOf(side, html) ==
    [n \in 1..Len(QueryChanges(html)) |->
        [side |-> side, changeType |-> MarkerType(QueryChanges(html)[n])]]

\* collectUnifiedMarkers on the two rendered containers: the markers of
\* the left container, then those of the right one.  Their positions, and
\* the merging of markers at nearby positions, which keeps one marker of
\* every group, are not modelled.
collectUnifiedMarkers(left, right) ==
    MarkersOf("left", left) \o MarkersOf("right", right)

(***************************************************************************)
(* compareHtmlDocuments: the promise, the timer callback and its outcomes. *)
(***************************************************************************)
Pipelines == {"exact", "format"}

\* The steps of one comparison, in the order the callback runs them.
Stages == <<"text", "extract", "align", "highlight", "report">>

\* The steps whose exception reaches the try block of the callback
\* (generateDetailedMutualReport and generateFormattedDetailedReport catch
\* their own).
ThrowingStages == {"text", "extract", "align", "highlight"}

StagesUpTo(stage) ==
    LET n == CHOOSE i \in 1..Len(Stages) : Stages[i] = stage
    IN {Stages[i] : i \in 1..n}

\* The fast-path object with the extracted texts in place of the markups.
UntouchedText(lHtml, rHtml) ==
    [leftDiffs  |-> <<EqualEntry(extractPlainText(lHtml))>>,
     rightDiffs |-> <<EqualEntry(extractPlainText(rHtml))>>,
     summary    |-> ZeroSummary,
     detailed   |-> EmptyReport]

\* The object both the fast path and the catch block resolve with.
Untouched(lHtml, rHtml) ==
    [leftDiffs  |-> <<EqualEntry(lHtml)>>,
     rightDiffs |-> <<EqualEntry(rHtml)>>,
     summary    |-> ZeroSummary,
     detailed   |-> EmptyReport]

\* A fast-path test that compares the extracted texts untrimmed.
TextsIdentical(lHtml, rHtml) ==
    extractPlainText(lHtml) = extractPlainText(rHtml)

\* The test of the fast path: leftText.trim() === rightText.trim()
TextsMatch(lHtml, rHtml) ==
    Trim(extractPlainText(lHtml)) = Trim(extractPlainText(rHtml))

\* A catch block that resolves with what the failed run had built so far.
CatchPartial(lHtml, rHtml, partial) == partial

\* What the catch block of the callback resolves with.
CatchResult(lHtml, rHtml, partial) == Untouched(lHtml, rHtml)

\* The alignment and the processed lists of a comparison cmp.
Run(as, cmp) ==
    [alignment |-> as,
     leftProcessed |-> cmp.leftProcessed,
     rightProcessed |-> cmp.rightProcessed]

ExactRunOf(L, R, as) == Run(as, ExactComparisonOf(L, R, as))

ExactRun(L, R) == ExactRunOf(L, R, createExactAlignment(L, R))

\* The alignment and the processed lists of a full comparison.  The
\* format-preserving pipeline pairs the units by index and builds no
\* alignment records.
WorkOf(p, lHtml, rHtml) ==
    IF p = "exact"
    THEN ExactRun(extractElementsWithDimensions(lHtml),
                  extractElementsWithDimensions(rHtml))
    ELSE Run(<<>>, performElementComparison(extractFormattedElements(lHtml),
                                            extractFormattedElements(rHtml)))

FullComparison(p, lHtml, rHtml, reportThrows) ==
    IF p = "exact"
    THEN performExactMutualComparison(lHtml, rHtml, reportThrows)
    ELSE performFormatPreservingComparison(lHtml, rHtml, reportThrows)

NoResult == <<>>

NoPreview == <<>>

\* No nested document has been highlighted.
NoStructure == <<>>

\* The panels are not mounted.
NoScroll == <<>>

Init ==
    /\ pc = "idle"
    /\ pipeline = "exact"
    /\ leftHtml = <<>>
    /\ rightHtml = <<>>
    /\ threw = "none"
    /\ work = {}
    /\ result = NoResult
    /\ alignment = <<>>
    /\ leftProcessed = <<>>
    /\ rightProcessed = <<>>
    /\ calls = <<>>
    /\ preview = NoPreview
    /\ structure = NoStructure
    /\ markers = <<>>
    /\ currentChange = 0
    /\ scroll = NoScroll

\* compareHtmlDocuments(leftHtml, rightHtml) of pipeline p: a pending
\* promise and a timer; no comparison work is done yet.
Call(p, l, r) ==
    /\ pc = "idle"
    /\ pc' = "pending"
    /\ pipeline' = p
    /\ leftHtml' = l
    /\ rightHtml' = r
    /\ UNCHANGED <<threw, work, result, alignment, leftProcessed, rightProcessed,
                   calls, otherVars>>

\* The timer callback when the trimmed plain texts are equal.
TimerIdentical ==
    /\ pc = "pending"
    /\ TextsMatch(leftHtml, rightHtml)
    /\ pc' = "resolved"
    /\ work' = {"text"}
    /\ result' = Untouched(leftHtml, rightHtml)
    /\ UNCHANGED <<pipeline, leftHtml, rightHtml, threw, alignment,
                   leftProcessed, rightProcessed, calls, otherVars>>

\* The intermediate lists of the run, kept for inspection.
Keep(w) ==
    /\ alignment' = w.alignment
    /\ leftProcessed' = w.leftProcessed
    /\ rightProcessed' = w.rightProcessed

\* The timer callback when the texts differ and no step throws.
TimerCompared(reportThrows) ==
    /\ pc = "pending"
    /\ ~TextsMatch(leftHtml, rightHtml)
    /\ pc' = "resolved"
    /\ work' = StagesUpTo("report")
    /\ Keep(WorkOf(pipeline, leftHtml, rightHtml))
    /\ result' = FullComparison(pipeline, leftHtml, rightHtml, reportThrows)
    /\ UNCHANGED <<pipeline, leftHtml, rightHtml, threw, calls, otherVars>>

\* The timer callback when step `stage` throws: the catch block resolves
\* the promise.  A step after the text comparison runs only when the texts
\* differ.
TimerThrew(stage) ==
    /\ pc = "pending"
    /\ stage = "text" \/ ~TextsMatch(leftHtml, rightHtml)
    /\ pc' = "resolved"
    /\ threw' = stage
    /\ work' = StagesUpTo(stage)
    /\ result' = CatchResult(leftHtml, rightHtml,
                     IF stage = "highlight"
                     THEN FullComparison(pipeline, leftHtml, rightHtml, FALSE)
                     ELSE Untouched(leftHtml, rightHtml))
    /\ UNCHANGED <<pipeline, leftHtml, rightHtml, alignment,
                   leftProcessed, rightProcessed, calls, otherVars>>

\* A call of pipeline p on two documents of at most n units together.
CallWithin(p, n) ==
    \E nl \in 0..n :
      \E nr \in 0..(n - nl) :
        \E l \in [1..nl -> ElementPool], r \in [1..nr -> ElementPool] :
          Call(p, l, r)

Next ==
    \/ \E p \in Pipelines : CallWithin(p, MaxUnits)
    \/ TimerIdentical
    \/ \E reportThrows \in BOOLEAN : TimerCompared(reportThrows)
    \/ \E stage \in ThrowingStages : TimerThrew(stage)

Spec == Init /\ [][Next]_vars

\* The exact-mutual pipeline on longer documents, every step succeeding.
NextExact ==
    \/ CallWithin("exact", MaxExactUnits)
    \/ TimerIdentical
    \/ TimerCompared(FALSE)

SpecExact == Init /\ [][NextExact]_vars

\* Either pipeline called with one document on both sides.  The texts of a
\* document match themselves, so the callback ends in the fast path or in
\* the catch block after a failed text extraction.
CallSame(p, n) ==
    \E k \in 0..n : \E d \in [1..k -> ElementPool] : Call(p, d, d)

NextSame ==
    \/ \E p \in Pipelines : CallSame(p, MaxSameUnits)
    \/ TimerIdentical
    \/ TimerThrew("text")

SpecSame == Init /\ [][NextSame]_vars

\* The exact-mutual pipeline called on documents with images.
CallImages(n) ==
    \E nl \in 0..n :
      \E nr \in 0..(n - nl) :
        \E l \in [1..nl -> ImagePool], r \in [1..nr -> ImagePool] :
          Call("exact", l, r)

NextImages ==
    \/ CallImages(MaxImageUnits)
    \/ TimerIdentical
    \/ TimerCompared(FALSE)

SpecImages == Init /\ [][NextImages]_vars

\* The format-preserving pipeline called on documents of FormatPool.
CallFormat(n) ==
    \E nl \in 0..n :
      \E nr \in 0..(n - nl) :
        \E l \in [1..nl -> FormatPool], r \in [1..nr -> FormatPool] :
          Call("format", l, r)

NextFormat ==
    \/ CallFormat(MaxFormatUnits)
    \/ TimerIdentical
    \/ TimerCompared(FALSE)

SpecFormat == Init /\ [][NextFormat]_vars

\* The three passes of createExactAlignment have pushed their records.
PushRecords(fate, rights) ==
    /\ pc = "idle"
    /\ pc' = "pushed"
    /\ alignment' = PushedRecords(fate, rights)
    /\ UNCHANGED <<pipeline, leftHtml, rightHtml, threw, work, result,
                   leftProcessed, rightProcessed, calls, otherVars>>

\* The final sort of createExactAlignment.
SortRecords ==
    /\ pc = "pushed"
    /\ pc' = "sorted"
    /\ alignment' = SortByPos(alignment)
    /\ UNCHANGED <<pipeline, leftHtml, rightHtml, threw, work, result,
                   leftProcessed, rightProcessed, calls, otherVars>>

NextSort ==
    \/ \E fate \in [SampledLeft -> Fates], rights \in SUBSET (1..MaxSortRight) :
          PushRecords(fate, rights)
    \/ SortRecords

SpecSort == Init /\ [][NextSort]_vars

(***************************************************************************)
(* The format-preserving pipeline on nested documents.  A document is the  *)
(* sequence of its elements in document order, each with its tag and the   *)
(* position of its parent (0 for a child of the container).  The elements  *)
(* between a table and its cells, and between a list item and its list,    *)
(* match no selector and are left out.                                      *)
(***************************************************************************)
StructureTags == {"div", "p", "li", "table", "td"}

\* The elements around element i, nearest first.
RECURSIVE Ancestors(_, _)
Ancestors(nodes, i) ==
    IF nodes[i].parent = 0
    THEN {}
    ELSE {nodes[i].parent} \cup Ancestors(nodes, nodes[i].parent)

\* The elements inside element i.
Descendants(nodes, i) == {j \in 1..Len(nodes) : i \in Ancestors(nodes, j)}

\* The documents a parser produces: the sequence is the document order, a
\* cell stands in a table and a table holds cells only, a paragraph holds
\* no element.
WellFormed(nodes) ==
    \A i \in 1..Len(nodes) :
        /\ nodes[i].parent \in {0} \cup
              (IF i = 1 THEN {} ELSE {i - 1} \cup Ancestors(nodes, i - 1))
        /\ nodes[i].parent # 0 => nodes[nodes[i].parent].tag # "p"
        /\ (nodes[i].tag = "td") <=>
              (nodes[i].parent # 0 /\ nodes[nodes[i].parent].tag = "table")

NestedDocuments(n) ==
    UNION {{nodes \in [1..k -> [tag : StructureTags, parent : 0..(k - 1)]] :
                WellFormed(nodes)} : k \in 0..n}

\* querySelectorAll('p, h1, h2, h3, h4, h5, h6, li, td, th, div') on the
\* container: the selected elements in document order.
NestedContentElements(nodes) ==
    SelectSeq([i \in 1..Len(nodes) |-> i],
              LAMBDA i : nodes[i].tag \in FormatSelectors)

\* The two early returns of the forEach callback of extractFormattedElements.
SkippedByExtraction(nodes, i) ==
    \/ /\ \E a \in Ancestors(nodes, i) \cup {i} : nodes[a].tag = "table"
       /\ nodes[i].tag \notin {"td", "th"}
    \/ /\ \E d \in Descendants(nodes, i) :
              nodes[d].tag \in {"p", "h1", "h2", "h3", "h4", "h5", "h6", "li"}
       /\ nodes[i].tag \notin {"td", "th"}

\* The elements of the units extractFormattedElements returns, in order.
ExtractedElements(nodes) ==
    SelectSeq(NestedContentElements(nodes),
              LAMBDA i : ~SkippedByExtraction(nodes, i))

\* The element applyFormattingPreservingHighlights highlights for each
\* processed unit made from a unit of this document: contentElements[index]
\* of the clone, index being the position of the unit in processedElements.
TargetElements(nodes) ==
    [k \in 1..Len(ExtractedElements(nodes)) |-> NestedContentElements(nodes)[k]]

\* One side of a comparison is a nested document: its units are extracted,
\* compared position by position and highlighted.
HighlightNested(nodes) ==
    /\ structure = NoStructure
    /\ structure' = [nodes |-> nodes,
                     source |-> ExtractedElements(nodes),
                     target |-> TargetElements(nodes)]
    /\ UNCHANGED <<engineVars, preview, minimapVars, scroll>>

NextNested == \E nodes \in NestedDocuments(MaxNodes) : HighlightNested(nodes)

SpecNested == Init /\ [][NextNested]_vars

(***************************************************************************)
(* UnifiedMiniMap: the marker list and the current marker.  Ratios are in  *)
(* percent of the height.                                                  *)
(***************************************************************************)
\* The ratios a marker may have, and the ratios of the clicks on the minimap.
MarkerRatios == {0, 2, 5, 50, 75, 100}
ClickRatios == {0, 3, 50, 60}

\* What collectUnifiedMarkers may return: markers sorted by ratio, no two
\* of them within the threshold of one percent.
MarkerLists(n) ==
    UNION {{ms \in [1..k -> MarkerRatios] :
                \A i \in 1..(k - 1) : ms[i + 1] - ms[i] > 1} : k \in 0..n}

Distance(a, b) == IF a < b THEN b - a ELSE a - b

\* The reduce of handleMinimapClick: the index of the first marker at the
\* smallest distance from the click, or -1 without markers.
ClosestMarker(ms, clickRatio) ==
    IF ms = <<>>
    THEN -1
    ELSE (CHOOSE i \in 1..Len(ms) :
            /\ \A j \in 1..Len(ms) :
                   Distance(ms[i], clickRatio) <= Distance(ms[j], clickRatio)
            /\ \A j \in 1..(i - 1) :
                   Distance(ms[j], clickRatio) > Distance(ms[i], clickRatio)) - 1

\* refreshAll: setMarkers(collectUnifiedMarkers()).
RefreshAll(ms) ==
    /\ markers' = ms
    /\ UNCHANGED <<currentChange, engineVars, preview, structure, scroll>>

navigateToNext ==
    /\ markers # <<>>
    /\ currentChange' = (currentChange + 1) % Len(markers)
    /\ UNCHANGED <<markers, engineVars, preview, structure, scroll>>

navigateToPrevious ==
    /\ markers # <<>>
    /\ currentChange' = IF currentChange = 0
                        THEN Len(markers) - 1
                        ELSE currentChange - 1
    /\ UNCHANGED <<markers, engineVars, preview, structure, scroll>>

\* The onClick of marker i.
MarkerClick(i) ==
    /\ i \in 0..(Len(markers) - 1)
    /\ currentChange' = i
    /\ UNCHANGED <<markers, engineVars, preview, structure, scroll>>

\* A click on the minimap: the closest marker becomes the current one when
\* it is nearer than three percent, otherwise the panels are only scrolled.
handleMinimapClick(clickRatio) ==
    /\ currentChange' =
          IF /\ markers # <<>>
             /\ Distance(markers[ClosestMarker(markers, clickRatio) + 1],
                         clickRatio) < 3
          THEN ClosestMarker(markers, clickRatio)
          ELSE currentChange
    /\ UNCHANGED <<markers, engineVars, preview, structure, scroll>>

resetView ==
    /\ currentChange' = 0
    /\ UNCHANGED <<markers, engineVars, preview, structure, scroll>>

NextMiniMap ==
    \/ \E ms \in MarkerLists(MaxMarkers) : RefreshAll(ms)
    \/ navigateToNext
    \/ navigateToPrevious
    \/ \E i \in 0..(MaxMarkers - 1) : MarkerClick(i)
    \/ \E clickRatio \in ClickRatios : handleMinimapClick(clickRatio)
    \/ resetView

SpecMiniMap == Init /\ [][NextMiniMap]_vars

(***************************************************************************)
(* DocumentPreview: the scroll synchronisation of the two panels.  Each    *)
(* panel runs its own effect, with its own isScrolling and its own timer.  *)
(* A change of scrollTop, by the user or by an assignment, raises a scroll *)
(* event that the browser delivers later, one event for all the changes    *)
(* since the last delivery.                                                *)
(***************************************************************************)
Sides == {"left", "right"}

\* targetId of handleScroll.
OtherSide(side) == IF side = "left" THEN "right" ELSE "left"

\* Math.round(num / den) for num >= 0 and den > 0.
Round(num, den) == (2 * num + den) \div (2 * den)

\* targetScrollTop of handleScroll for a source at position top, as the
\* target panel stores it: scrollTop is kept within the scrollable range.
TargetScrollTop(range, source, top) ==
    Min(range[OtherSide(source)],
        Round(Max(1, range[OtherSide(source)]) * top, Max(1, range[source])))

\* The two panels are mounted.  `document` in handleScroll is the prop of
\* the component, which hides the document of the page: lookup says what
\* calling its getElementById does, "throws" when the prop has no such
\* function and "page" when it finds the elements of the page.
Mount(lookup, range) ==
    /\ scroll = NoScroll
    /\ scroll' = [getElementById |-> lookup,
                  range |-> range,
                  scrollTop |-> [side \in Sides |-> 0],
                  isScrolling |-> [side \in Sides |-> FALSE],
                  scrollEvent |-> [side \in Sides |-> FALSE],
                  userSides |-> {},
                  userTop |-> 0,
                  assignments |-> 0]
    /\ UNCHANGED <<engineVars, preview, structure, minimapVars>>

\* The user scrolls panel side to position top.
UserScroll(side, top) ==
    /\ scroll # NoScroll
    /\ top \in 0..scroll.range[side]
    /\ top # scroll.scrollTop[side]
    /\ scroll' = [scroll EXCEPT !.scrollTop[side] = top,
                                !.scrollEvent[side] = TRUE,
                                !.userSides = @ \cup {side},
                                !.userTop = top,
                                !.assignments = 0]
    /\ UNCHANGED <<engineVars, preview, structure, minimapVars>>

\* handleScroll in a browser that raised a scroll event for every
\* assignment of scrollTop, also for one that leaves the position as it is.
SynchronisedAlwaysRaising(source) ==
    LET target == OtherSide(source)
        top == TargetScrollTop(scroll.range, source, scroll.scrollTop[source])
    IN [scroll EXCEPT !.scrollEvent[source] = FALSE,
                      !.isScrolling[source] = TRUE,
                      !.scrollTop[target] = top,
                      !.scrollEvent[target] = TRUE,
                      !.assignments = @ + 1]

\* The panel after handleScroll of panel source has run to its end.
Synchronised(source) ==
    LET target == OtherSide(source)
        top == TargetScrollTop(scroll.range, source, scroll.scrollTop[source])
    IN [scroll EXCEPT !.scrollEvent[source] = FALSE,
                      !.isScrolling[source] = TRUE,
                      !.scrollTop[target] = top,
                      !.scrollEvent[target] = @ \/ top # scroll.scrollTop[target],
                      !.assignments = @ + 1]

\* The browser delivers the scroll event of panel side to its handleScroll.
handleScroll(side) ==
    /\ scroll # NoScroll
    /\ scroll.scrollEvent[side]
    /\ scroll.assignments < MaxAssignments
    /\ scroll' = IF scroll.isScrolling[side] \/ scroll.getElementById = "throws"
                 THEN [scroll EXCEPT !.scrollEvent[side] = FALSE]
                 ELSE Synchronised(side)
    /\ UNCHANGED <<engineVars, preview, structure, minimapVars>>

\* The callback of the 50 ms timer of panel side.
ResetTimer(side) ==
    /\ scroll # NoScroll
    /\ scroll.isScrolling[side]
    /\ scroll' = [scroll EXCEPT !.isScrolling[side] = FALSE]
    /\ UNCHANGED <<engineVars, preview, structure, minimapVars>>

NextScroll ==
    \/ \E lookup \in {"throws", "page"}, range \in [Sides -> 0..MaxScrollRange] :
          Mount(lookup, range)
    \/ \E side \in Sides, top \in 0..MaxScrollRange : UserScroll(side, top)
    \/ \E side \in Sides : handleScroll(side)
    \/ \E side \in Sides : ResetTimer(side)

SpecScroll == Init /\ [][NextScroll]_vars

(***************************************************************************)
(* The previews of the placeholders, as functions of the text shown.       *)
(***************************************************************************)
\* A text of n characters.
TextOfLength(n) == [i \in 1..n |-> "x"]

\* A sequence without its first n elements and its last m elements.
Inside(t, n, m) == SubSeq(t, n + 1, Len(t) - m)

\* The preview of text in the inline placeholder of pipeline p: what
\* stands between "[" and "]" in the exact-mutual pipeline, between "[+"
\* and "]" in the format-preserving one.
InlinePreview(p, text) ==
    IF p = "exact"
    THEN Inside(ExactInlinePlaceholder(DIFF_INSERT, text).t, 1, 1)
    ELSE Inside(InlineMarkup(DIFF_INSERT, "left", text).t, 2, 1)

\* The preview of text in the whole-unit placeholder of pipeline p: what
\* stands between the quotation marks of the label.
UnitPreview(p, text) ==
    IF p = "exact"
    THEN Inside(TextContent(createExactDimensionPlaceholder(
                    ExactUnit(Element("p", "400", <<text>>), 1),
                    "placeholder-added")), 1, 1)
    ELSE Inside(TextContent(createFormattedPlaceholder(
                    text, FormattingContext(Element("p", "400", <<text>>)),
                    "added")), 1, 1)

\* Pipeline p makes the two placeholders for a text of n characters.
ShowPreviews(p, n) ==
    /\ preview = NoPreview
    /\ preview' = [pipeline |-> p, text |-> TextOfLength(n),
                   inline |-> InlinePreview(p, TextOfLength(n)),
                   unit |-> UnitPreview(p, TextOfLength(n))]
    /\ UNCHANGED <<engineVars, structure, minimapVars, scroll>>

NextPreview ==
    \E p \in Pipelines, n \in 0..MaxPreviewText : ShowPreviews(p, n)

SpecPreview == Init /\ [][NextPreview]_vars

(***************************************************************************)
(* Several invocations pending at the same time.  Each call makes its own  *)
(* promise and its own timer; the callbacks run one at a time, in any      *)
(* order.                                                                   *)
(***************************************************************************)
\* The documents of the invocations made at the same time.
ConcurrentDocs == {<<E_Hello>>, <<E_HelloThere>>}

\* What can happen inside a callback: no step throws, or one of them does.
ConcurrentFailures == {"none"} \cup ThrowingStages

\* What the callback had computed when step `failure` threw.
PartialResult(args, failure) ==
    IF failure = "highlight"
    THEN FullComparison(args.pipeline, args.leftHtml, args.rightHtml, FALSE)
    ELSE Untouched(args.leftHtml, args.rightHtml)

\* The invocation compareHtmlDocuments(l, r) of pipeline p starts: a
\* pending promise, a timer, and the arguments the callback closes over.
NewInvocation(p, l, r) ==
    [pipeline |-> p, leftHtml |-> l, rightHtml |-> r,
     promise |-> "pending", timer |-> "set", resolveCalls |-> 0,
     work |-> {}, threw |-> "none", result |-> NoResult]

\* The arguments a callback would read if every call stored them in one
\* place shared by all invocations: those of the latest call.
ArgumentsOfLatest(cs, i) ==
    [pipeline |-> cs[Len(cs)].pipeline, leftHtml |-> cs[Len(cs)].leftHtml,
     rightHtml |-> cs[Len(cs)].rightHtml]

\* The arguments the callback of invocation i reads: the parameters of its
\* own call, which the arrow functions close over.
ArgumentsOf(cs, i) ==
    [pipeline |-> cs[i].pipeline, leftHtml |-> cs[i].leftHtml,
     rightHtml |-> cs[i].rightHtml]

\* Step `failure` can throw in a callback with arguments args: a step after
\* the text comparison runs only when the texts differ.
CanFail(args, failure) ==
    failure \in {"none", "text"} \/ ~TextsMatch(args.leftHtml, args.rightHtml)

\* The callback without the return after the resolve of the fast path:
\* the full comparison runs too and calls resolve a second time.
CallbackWithoutReturn(args, failure) ==
    IF failure # "none"
    THEN [resolved |-> <<CatchResult(args.leftHtml, args.rightHtml,
                                     PartialResult(args, failure))>>,
          rejected |-> <<>>, work |-> StagesUpTo(failure), threw |-> failure]
    ELSE IF TextsMatch(args.leftHtml, args.rightHtml)
    THEN [resolved |-> <<Untouched(args.leftHtml, args.rightHtml),
                         FullComparison(args.pipeline, args.leftHtml,
                                        args.rightHtml, FALSE)>>,
          rejected |-> <<>>, work |-> StagesUpTo("report"), threw |-> "none"]
    ELSE [resolved |-> <<FullComparison(args.pipeline, args.leftHtml,
                                        args.rightHtml, FALSE)>>,
          rejected |-> <<>>, work |-> StagesUpTo("report"), threw |-> "none"]

\* What the timer callback does with arguments args when step `failure`
\* throws ("none": no step throws): the values it passes to resolve and to
\* reject, the steps it runs, and the step that threw.
CallbackOutcome(args, failure) ==
    IF failure # "none"
    THEN [resolved |-> <<CatchResult(args.leftHtml, args.rightHtml,
                                     PartialResult(args, failure))>>,
          rejected |-> <<>>, work |-> StagesUpTo(failure), threw |-> failure]
    ELSE IF TextsMatch(args.leftHtml, args.rightHtml)
    THEN [resolved |-> <<Untouched(args.leftHtml, args.rightHtml)>>,
          rejected |-> <<>>, work |-> {"text"}, threw |-> "none"]
    ELSE [resolved |-> <<FullComparison(args.pipeline, args.leftHtml,
                                        args.rightHtml, FALSE)>>,
          rejected |-> <<>>, work |-> StagesUpTo("report"), threw |-> "none"]

\* The invocation after its callback has run with outcome out.  A promise
\* is settled by the first call of resolve or reject; later calls count
\* but change nothing.
AfterCallback(inv, out) ==
    [inv EXCEPT
       !.timer = "fired",
       !.resolveCalls = Len(out.resolved),
       !.promise = IF out.resolved # <<>> THEN "fulfilled"
                   ELSE IF out.rejected # <<>> THEN "rejected"
                   ELSE "pending",
       !.result = IF out.resolved # <<>> THEN out.resolved[1] ELSE NoResult,
       !.work = out.work,
       !.threw = out.threw]

\* compareHtmlDocuments(l, r) of pipeline p is called while other
\* invocations may be pending.
Invoke(p, l, r) ==
    /\ Len(calls) < MaxCalls
    /\ calls' = Append(calls, NewInvocation(p, l, r))
    /\ UNCHANGED <<pc, pipeline, leftHtml, rightHtml, threw, work, result,
                   alignment, leftProcessed, rightProcessed, otherVars>>

\* The timer of invocation i fires and its callback runs to its end.
TimerFires(i, failure) ==
    /\ i \in 1..Len(calls)
    /\ calls[i].timer = "set"
    /\ CanFail(ArgumentsOf(calls, i), failure)
    /\ calls' = [calls EXCEPT
                   ![i] = AfterCallback(@, CallbackOutcome(ArgumentsOf(calls, i),
                                                           failure))]
    /\ UNCHANGED <<pc, pipeline, leftHtml, rightHtml, threw, work, result,
                   alignment, leftProcessed, rightProcessed, otherVars>>

NextConcurrent ==
    \/ \E p \in Pipelines, l \in ConcurrentDocs, r \in ConcurrentDocs :
          Invoke(p, l, r)
    \/ \E i \in 1..MaxCalls, failure \in ConcurrentFailures :
          TimerFires(i, failure)

SpecConcurrent == Init /\ [][NextConcurrent]_vars

(***************************************************************************)
(* Properties.                                                             *)
(***************************************************************************)
\* The promise is resolved after a comparison in which every step succeeded.
Compared == pc = "resolved" /\ threw = "none" /\ "highlight" \in work

\* The rendered units of one side of the result.
RenderedUnits(diffs) == renderHtmlDifferences(diffs)

\* C1: in the exact-mutual pipeline leftProcessed and rightProcessed have
\* the same length, the number of alignment records, and the re-assembled
\* left and right containers hold the same number of rendered units.
C1_LengthEquivalence ==
    (Compared /\ pipeline = "exact") =>
        /\ Len(leftProcessed) = Len(alignment)
        /\ Len(rightProcessed) = Len(alignment)
        /\ Len(RenderedUnits(result.leftDiffs)) = Len(RenderedUnits(result.rightDiffs))

\* C1 happens: a run whose alignment holds a leftOnly record next to a
\* match, so that the right side received a placeholder, for documents of
\* different lengths.
C1_Witness ==
    /\ Compared /\ pipeline = "exact"
    /\ Len(leftHtml) # Len(rightHtml)
    /\ \E i, k \in 1..Len(alignment) :
          /\ alignment[i].matchType = "leftOnly"
          /\ alignment[k].matchType = "match"
    /\ \E i \in 1..Len(rightProcessed) :
          rightProcessed[i].highlight = "placeholder-removed"

\* C2: compareHtmlDocuments(D, D) resolves with an all-zero summary, and
\* renderHtmlDifferences of the returned leftDiffs and of the returned
\* rightDiffs each gives D back.
C2_Identity ==
    (pc = "resolved" /\ leftHtml = rightHtml) =>
        /\ result.summary = [additions |-> 0, deletions |-> 0, changes |-> 0]
        /\ renderHtmlDifferences(result.leftDiffs) = leftHtml
        /\ renderHtmlDifferences(result.rightDiffs) = rightHtml

\* C2 happens: a non-empty document was compared with itself and no step failed.
C2_Witness ==
    /\ pc = "resolved" /\ threw = "none"
    /\ leftHtml = rightHtml /\ leftHtml # <<>>

\* C3: when a step of the comparison throws, the promise is resolved with
\* one 'equal' entry per side holding the original markup, an all-zero
\* summary and an empty detailed report.
C3_FailSoft ==
    (pc = "resolved" /\ threw # "none") =>
        result = [leftDiffs  |-> <<[type |-> "equal", content |-> leftHtml]>>,
                  rightDiffs |-> <<[type |-> "equal", content |-> rightHtml]>>,
                  summary    |-> [additions |-> 0, deletions |-> 0, changes |-> 0],
                  detailed   |-> [lines |-> <<>>, tables |-> <<>>, images |-> <<>>]]

\* C3 happens: the highlighting step threw on two documents whose texts
\* differ, after extraction and alignment had run.
C3_Witness ==
    /\ pc = "resolved" /\ threw = "highlight"
    /\ {"extract", "align"} \subseteq work
    /\ ~TextsMatch(leftHtml, rightHtml)

\* summary.additions of one comparison is summary.deletions of the other,
\* and the other way round.
MirrorSummaries(fwd, bwd) ==
    /\ fwd.additions = bwd.deletions
    /\ fwd.deletions = bwd.additions

\* C4: in the exact-mutual pipeline the additions of comparing (A, B) are
\* the deletions of comparing (B, A), and the deletions of (A, B) are the
\* additions of (B, A).
C4_ExactCountSymmetry ==
    (Compared /\ pipeline = "exact") =>
        MirrorSummaries(result.summary,
            performExactElementComparison(
                extractElementsWithDimensions(rightHtml),
                extractElementsWithDimensions(leftHtml)).summary)

\* C5: in the format-preserving pipeline the additions of comparing (A, B)
\* are the deletions of comparing (B, A) and the other way round, also when
\* index-aligned units are classified modified or format-changed.
C5_FormatCountSymmetry ==
    (Compared /\ pipeline = "format") =>
        MirrorSummaries(result.summary,
            performElementComparison(
                extractFormattedElements(rightHtml),
                extractFormattedElements(leftHtml)).summary)

\* The promise was resolved through the fast path: both markups unchanged,
\* an all-zero summary, an empty detailed report, and no step run after
\* the text comparison.
FastPathTaken ==
    /\ result = [leftDiffs  |-> <<[type |-> "equal", content |-> leftHtml]>>,
                 rightDiffs |-> <<[type |-> "equal", content |-> rightHtml]>>,
                 summary    |-> [additions |-> 0, deletions |-> 0, changes |-> 0],
                 detailed   |-> [lines |-> <<>>, tables |-> <<>>, images |-> <<>>]]
    /\ work = {"text"}

\* C6 as claimed: whenever the plain texts of the two documents are equal
\* after collapsing the inner whitespace runs and trimming the ends,
\* compareHtmlDocuments takes the fast path.
C6_NormalizedFastPath ==
    (pc = "resolved" /\ threw = "none"
     /\ NormalizeWs(extractPlainText(leftHtml)) = NormalizeWs(extractPlainText(rightHtml)))
        => FastPathTaken

\* C6 as amended: whenever the plain texts of the two documents are equal
\* after trimming their ends (inner whitespace left as it is),
\* compareHtmlDocuments takes the fast path.
C6_TrimmedFastPath ==
    (pc = "resolved" /\ threw = "none"
     /\ Trim(extractPlainText(leftHtml)) = Trim(extractPlainText(rightHtml)))
        => FastPathTaken

\* C6 happens: two documents whose texts differ by whitespace at an end
\* only were compared, and the fast path answered.
C6_Witness ==
    /\ pc = "resolved" /\ threw = "none"
    /\ extractPlainText(leftHtml) # extractPlainText(rightHtml)
    /\ Trim(extractPlainText(leftHtml)) = Trim(extractPlainText(rightHtml))
    /\ FastPathTaken

\* The fuzzy thresholds compared, in percent, rising; the similarities of
\* the texts of the model lie between them.
Thresholds == <<30, 50, 70, 80, 90>>

\* The number of 'match' records createExactAlignment returns for the
\* units of two documents under threshold thr.
MatchCount(lHtml, rHtml, thr) ==
    Len(SelectSeq(AlignmentAbove(extractElementsWithDimensions(lHtml),
                                 extractElementsWithDimensions(rHtml), thr),
                  LAMBDA a : a.matchType = "match"))

\* C7: for fixed left and right units, raising the fuzzy threshold does
\* not increase the number of 'match' records of createExactAlignment.
C7_ThresholdMonotone ==
    (Compared /\ pipeline = "exact") =>
        \A k \in 1..(Len(Thresholds) - 1) :
            MatchCount(leftHtml, rightHtml, Thresholds[k + 1])
                <= MatchCount(leftHtml, rightHtml, Thresholds[k])

\* C7 happens: documents of three units for which raising the threshold
\* past the one the code uses loses a match.
C7_Witness ==
    /\ Compared /\ pipeline = "exact"
    /\ Len(leftHtml) + Len(rightHtml) >= 3
    /\ MatchCount(leftHtml, rightHtml, 80)
           < MatchCount(leftHtml, rightHtml, SimilarityThreshold)
    /\ MatchCount(leftHtml, rightHtml, SimilarityThreshold)
           < MatchCount(leftHtml, rightHtml, 50)

\* The classes of the spans that stand in for text of the other side.
PlaceholderSpans ==
    {"mutual-inline-placeholder-added", "mutual-inline-placeholder-removed",
     "diff-placeholder-added", "diff-placeholder-removed"}

\* The visible text of highlighted items without the placeholder spans.
VisibleWithoutPlaceholders(items) ==
    Concat([i \in 1..Len(items) |->
               IF items[i].k \in PlaceholderSpans THEN <<>> ELSE items[i].t])

\* The highlighted markup the renderer made for a modified unit.
HighlightedItems(unit) ==
    IF pipeline = "exact" THEN unit.mutualHtml[1] ELSE unit.processedContent[1]

\* A modified unit shows its original text, no more and no less.
TextKept(unit) ==
    unit.highlight = "modified" =>
        VisibleWithoutPlaceholders(HighlightedItems(unit))
            = TextContent(unit.element[1])

\* C8: for every pair classified modified, on each side the visible text
\* of the highlighted markup without the injected placeholder spans is
\* that side's original visible text: nothing lost, nothing duplicated.
C8_TextKept ==
    Compared =>
        /\ \A i \in 1..Len(leftProcessed) : TextKept(leftProcessed[i])
        /\ \A i \in 1..Len(rightProcessed) : TextKept(rightProcessed[i])

\* The exact-mutual pipeline compared <p>Hello</p> with <p>Hello there</p>.
HelloCompared ==
    /\ Compared /\ pipeline = "exact"
    /\ leftHtml = <<E_Hello>> /\ rightHtml = <<E_HelloThere>>

\* C9 as claimed: comparing 'Hello' with 'Hello there' gives one alignment
\* record, a match, whose pair is classified modified on both sides.
C9_HelloMatched ==
    HelloCompared =>
        /\ Len(alignment) = 1
        /\ alignment[1].matchType = "match"
        /\ leftProcessed[1].highlight = "modified"
        /\ rightProcessed[1].highlight = "modified"

\* C9 as amended: comparing 'Hello' with 'Hello there' gives a leftOnly
\* record for 'Hello' and a rightOnly record for 'Hello there', rendered as
\* a removed unit facing a placeholder and a placeholder facing an added
\* unit, with one deletion and one addition in the summary.
C9_HelloUnmatched ==
    HelloCompared =>
        /\ alignment = <<[leftIndex |-> 1, rightIndex |-> NULL, matchType |-> "leftOnly"],
                         [leftIndex |-> NULL, rightIndex |-> 1, matchType |-> "rightOnly"]>>
        /\ [i \in 1..Len(leftProcessed) |-> leftProcessed[i].highlight]
              = <<"removed", "placeholder-added">>
        /\ [i \in 1..Len(rightProcessed) |-> rightProcessed[i].highlight]
              = <<"placeholder-removed", "added">>
        /\ result.summary = [additions |-> 1, deletions |-> 1, changes |-> 2]

\* C9 happens: that comparison ran to its end.
C9_Witness == HelloCompared /\ "report" \in work /\ Len(alignment) > 0

\* out holds at position i a placeholder of the given type labelled with a
\* preview of text.
PlaceholderAt(out, i, text, type) ==
    /\ i <= Len(out)
    /\ ("git-placeholder-" \o type) \in out[i].cls
    /\ TextContent(out[i])
          = <<"[Content " \o type \o ": \"">> \o Preview(text, FormatPreviewLen) \o <<"\"]">>

\* The surplus units of the longer of L and R are counted once each, and
\* the shorter side shows a placeholder for each.
SurplusShown(L, R) ==
    /\ Len(L) > Len(R) =>
          /\ result.summary.deletions =
                performElementComparison(SubSeq(L, 1, Len(R)), R).summary.deletions
                + (Len(L) - Len(R))
          /\ \A i \in (Len(R) + 1)..Len(L) :
                PlaceholderAt(RenderedUnits(result.rightDiffs), i, L[i].text, "removed")
    /\ Len(R) > Len(L) =>
          /\ result.summary.additions =
                performElementComparison(L, SubSeq(R, 1, Len(L))).summary.additions
                + (Len(R) - Len(L))
          /\ \A i \in (Len(L) + 1)..Len(R) :
                PlaceholderAt(RenderedUnits(result.leftDiffs), i, R[i].text, "added")

\* C10: in the format-preserving pipeline, when one document has more
\* units than the other, each surplus unit at index i is counted once and
\* the rendered output of the shorter side holds at position i a
\* placeholder labelled with a preview of the surplus unit's text.
C10_SurplusPlaceholder ==
    (Compared /\ pipeline = "format") =>
        SurplusShown(extractFormattedElements(leftHtml),
                     extractFormattedElements(rightHtml))

\* html holds no image with the src and alt of image.
NoIdenticalImage(image, html) ==
    \A j \in 1..Len(html) :
        ~(html[j].tag = "img" /\ html[j].src = image.src /\ html[j].alt = image.alt)

\* out holds at position k a placeholder of the given highlight showing label.
LabelledPlaceholderAt(out, k, highlight, label) ==
    /\ k <= Len(out)
    /\ {"mutual-placeholder", highlight} \subseteq out[k].cls
    /\ TextContent(out[k]) = <<label>>

\* C11: an image of the left document without an identical image (same
\* src and alt) on the right is reported as a leftOnly record, counted in
\* summary.deletions, and the right output holds at the record's position
\* a placeholder labelled 'Image Removed'; an image of the right document
\* without an identical image on the left gives an 'Image Added'
\* placeholder on the left in the same way.
C11_ImagePlaceholder ==
    (pc = "resolved" /\ pipeline = "exact" /\ threw = "none") =>
        /\ \A i \in 1..Len(leftHtml) :
              (leftHtml[i].tag = "img" /\ NoIdenticalImage(leftHtml[i], rightHtml)) =>
                  /\ result.summary.deletions >= 1
                  /\ \E k \in 1..Len(alignment) :
                        /\ alignment[k] = Record(i, NULL, "leftOnly")
                        /\ LabelledPlaceholderAt(RenderedUnits(result.rightDiffs), k,
                                                 "placeholder-removed", "[Image Removed]")
        /\ \A j \in 1..Len(rightHtml) :
              (rightHtml[j].tag = "img" /\ NoIdenticalImage(rightHtml[j], leftHtml)) =>
                  /\ result.summary.additions >= 1
                  /\ \E k \in 1..Len(alignment) :
                        /\ alignment[k] = Record(NULL, j, "rightOnly")
                        /\ LabelledPlaceholderAt(RenderedUnits(result.leftDiffs), k,
                                                 "placeholder-added", "[Image Added]")

\* The record a of an alignment of nl left and nr right units is well-formed.
WellFormedRecord(a, nl, nr) ==
    /\ a.matchType \in {"match", "leftOnly", "rightOnly"}
    /\ a.matchType = "match" =>
          /\ a.leftIndex # NULL /\ a.leftIndex \in 1..nl
          /\ a.rightIndex # NULL /\ a.rightIndex \in 1..nr
    /\ a.matchType = "leftOnly" =>
          /\ a.leftIndex # NULL /\ a.leftIndex \in 1..nl
          /\ a.rightIndex = NULL
    /\ a.matchType = "rightOnly" =>
          /\ a.leftIndex = NULL
          /\ a.rightIndex # NULL /\ a.rightIndex \in 1..nr

\* C12: every record createExactAlignment returns is well-formed: a match
\* has a left and a right index, both non-null and inside their sequences,
\* a leftOnly record has a left index and a null right index, a rightOnly
\* record has a null left index and a right index.
C12_WellFormedRecords ==
    (Compared /\ pipeline = "exact") =>
        \A k \in 1..Len(alignment) :
            WellFormedRecord(alignment[k],
                             Len(extractElementsWithDimensions(leftHtml)),
                             Len(extractElementsWithDimensions(rightHtml)))

\* C12 happens: an alignment that holds a match and a rightOnly record.
C12_Witness ==
    /\ Compared /\ pipeline = "exact"
    /\ \E k \in 1..Len(alignment) : alignment[k].matchType = "match"
    /\ \E k \in 1..Len(alignment) : alignment[k].matchType = "rightOnly"

\* The positions of the records of alignment with the given match type.
RecordsOfType(type) ==
    {k \in 1..Len(alignment) : alignment[k].matchType = type}

\* The positions of the match records classified 'modified'.
ModifiedMatches ==
    {k \in RecordsOfType("match") : leftProcessed[k].highlight = "modified"}

\* C15: the summary of performExactElementComparison counts the records:
\* additions is the number of rightOnly records, deletions the number of
\* leftOnly records, changes is additions + deletions + the number of
\* matches classified 'modified'; changes is 0 exactly when every
\* processed unit of both sides has highlight 'none'.
C15_SummaryCounts ==
    (Compared /\ pipeline = "exact") =>
        /\ result.summary.additions = Cardinality(RecordsOfType("rightOnly"))
        /\ result.summary.deletions = Cardinality(RecordsOfType("leftOnly"))
        /\ result.summary.changes =
              result.summary.additions + result.summary.deletions
              + Cardinality(ModifiedMatches)
        /\ (result.summary.changes = 0) <=>
              /\ \A k \in 1..Len(leftProcessed) : leftProcessed[k].highlight = "none"
              /\ \A k \in 1..Len(rightProcessed) : rightProcessed[k].highlight = "none"

\* C15 happens: a comparison with a modified match and an added unit, so
\* that changes counts both.
C15_Witness ==
    /\ Compared /\ pipeline = "exact"
    /\ ModifiedMatches # {}
    /\ RecordsOfType("rightOnly") # {}
    /\ result.summary.changes >= 2

\* The report status that agrees with the classification of record k.
StatusOfRecord(k) ==
    IF alignment[k].matchType = "leftOnly" THEN "REMOVED"
    ELSE IF alignment[k].matchType = "rightOnly" THEN "ADDED"
    ELSE IF leftProcessed[k].highlight = "modified" THEN "MODIFIED"
    ELSE "UNCHANGED"

\* The positions of the report lines with the given status.
LinesWithStatus(status) ==
    {k \in 1..Len(result.detailed.lines) : result.detailed.lines[k].status = status}

\* C16: the detailed report of the exact-mutual pipeline has one line per
\* alignment record and the status of each line agrees with the record:
\* UNCHANGED for a match classified 'none', MODIFIED for a match
\* classified 'modified', REMOVED for a leftOnly record, ADDED for a
\* rightOnly record; the REMOVED lines are as many as summary.deletions
\* and the ADDED lines as many as summary.additions.
C16_ReportFollowsAlignment ==
    (Compared /\ pipeline = "exact") =>
        /\ Len(result.detailed.lines) = Len(alignment)
        /\ \A k \in 1..Len(alignment) :
              k <= Len(result.detailed.lines)
              /\ result.detailed.lines[k].status = StatusOfRecord(k)
        /\ Cardinality(LinesWithStatus("REMOVED")) = result.summary.deletions
        /\ Cardinality(LinesWithStatus("ADDED")) = result.summary.additions

\* html without its i-th element.
Without(html, i) == SubSeq(html, 1, i - 1) \o SubSeq(html, i + 1, Len(html))

\* summary.changes of the comparison of the units of two documents.
ChangesBetween(lHtml, rHtml) ==
    performExactElementComparison(extractElementsWithDimensions(lHtml),
                                  extractElementsWithDimensions(rHtml)).summary.changes

\* Whichever single unit is left out, the other units of the two documents
\* differ.
OtherUnitsDiffer(lHtml, rHtml) ==
    /\ Len(lHtml) + Len(rHtml) >= 2
    /\ \A i \in 1..Len(lHtml) : ChangesBetween(Without(lHtml, i), rHtml) > 0
    /\ \A j \in 1..Len(rHtml) : ChangesBetween(lHtml, Without(rHtml, j)) > 0

\* C18: in the exact-mutual pipeline a failure of the style or dimension
\* capture of one unit during extraction is confined to that unit: when
\* the other units differ, the result still reports their changes and is
\* not the unannotated zero-change fallback.
C18_CaptureFailureConfined ==
    (/\ pc = "resolved" /\ pipeline = "exact" /\ threw = "extract"
     /\ OtherUnitsDiffer(leftHtml, rightHtml)) =>
        /\ result.summary.changes > 0
        /\ result # Untouched(leftHtml, rightHtml)

\* The records of alignment that claim left unit i.
ClaimsOfLeft(i) == {k \in 1..Len(alignment) : alignment[k].leftIndex = i}

\* The records of alignment that claim right unit j.
ClaimsOfRight(j) == {k \in 1..Len(alignment) : alignment[k].rightIndex = j}

\* C19: createExactAlignment claims every unit exactly once: each left
\* index is in exactly one record (a match or a leftOnly) and each right
\* index is in exactly one record (a match or a rightOnly); the fuzzy pass
\* pairs no left unit with two right units.
C19_ClaimedOnce ==
    (Compared /\ pipeline = "exact") =>
        /\ \A i \in 1..Len(extractElementsWithDimensions(leftHtml)) :
              Cardinality(ClaimsOfLeft(i)) = 1
        /\ \A j \in 1..Len(extractElementsWithDimensions(rightHtml)) :
              Cardinality(ClaimsOfRight(j)) = 1

\* The highlights of a unit that shows a change.
ChangeHighlights ==
    {"added", "removed", "modified", "placeholder-added", "placeholder-removed"}

\* Processed unit k of a side is rendered in the output of that side.
IsRendered(html, k) ==
    pipeline = "exact" \/ k <= Len(ContentElements(html))

\* The element rendered for processed unit k of a side.
RenderedFor(html, diffs, k) ==
    IF pipeline = "exact" THEN RenderedUnits(diffs)[k]
    ELSE RenderedUnits(diffs)[ContentElements(html)[k]]

\* The rendered element of every changed unit of a side carries a class
\* that CHANGE_SELECTORS matches.
ChangesSelectable(html, diffs, processed) ==
    \A k \in 1..Len(processed) :
        (processed[k].highlight \in ChangeHighlights /\ IsRendered(html, k)) =>
            RenderedFor(html, diffs, k).cls \cap CHANGE_SELECTORS # {}

\* A side renders a unit that shows a change.
RendersChange(html, processed) ==
    \E k \in 1..Len(processed) :
        processed[k].highlight \in ChangeHighlights /\ IsRendered(html, k)

\* C17: every element a pipeline renders for a unit whose highlight is
\* added, removed, modified or a placeholder carries a class matched by
\* CHANGE_SELECTORS, so that collectUnifiedMarkers returns a non-empty
\* list whenever the rendered outputs hold a highlighted unit.
C17_ChangesReachMinimap ==
    Compared =>
        /\ ChangesSelectable(leftHtml, result.leftDiffs, leftProcessed)
        /\ ChangesSelectable(rightHtml, result.rightDiffs, rightProcessed)
        /\ (RendersChange(leftHtml, leftProcessed)
             \/ RendersChange(rightHtml, rightProcessed)) =>
               collectUnifiedMarkers(RenderedUnits(result.leftDiffs),
                                     RenderedUnits(result.rightDiffs)) # <<>>

\* The records of as are in the order of the returned alignment.
Ordered(as) ==
    \A a, b \in 1..Len(as) :
        a < b =>
            /\ (as[a].leftIndex # NULL /\ as[b].leftIndex # NULL) =>
                  as[a].leftIndex <= as[b].leftIndex
            /\ ~(as[a].matchType = "rightOnly" /\ as[b].leftIndex # NULL)
            /\ (as[a].matchType = "rightOnly" /\ as[b].matchType = "rightOnly") =>
                  as[a].rightIndex < as[b].rightIndex

\* C20: in the list createExactAlignment returns, for inputs of any
\* length, the records with a left index are in non-decreasing left-index
\* order, no rightOnly record comes before a record with a left index, and
\* the rightOnly records are in increasing right-index order.
C20_SortedAlignment ==
    (pc = "sorted" \/ (Compared /\ pipeline = "exact")) => Ordered(alignment)

\* The result the arguments of invocation inv determine, given the step
\* that threw in its callback.
OwnResult(inv) ==
    IF inv.threw # "none" \/ TextsMatch(inv.leftHtml, inv.rightHtml)
    THEN [leftDiffs  |-> <<[type |-> "equal", content |-> inv.leftHtml]>>,
          rightDiffs |-> <<[type |-> "equal", content |-> inv.rightHtml]>>,
          summary    |-> [additions |-> 0, deletions |-> 0, changes |-> 0],
          detailed   |-> [lines |-> <<>>, tables |-> <<>>, images |-> <<>>]]
    ELSE FullComparison(inv.pipeline, inv.leftHtml, inv.rightHtml, FALSE)

\* C13: when several invocations of compareHtmlDocuments are pending at
\* the same time and their callbacks run in any order, each promise is
\* resolved with the result its own arguments determine, whatever the
\* other invocations are and whichever of them completed before it.
C13_IndependentInvocations ==
    \A i \in 1..Len(calls) :
        calls[i].promise = "fulfilled" => calls[i].result = OwnResult(calls[i])

\* C13 happens: two invocations with different arguments were pending
\* together, the later call completed first with a full comparison, the
\* earlier one is still pending.
C13_Witness ==
    /\ Len(calls) = 2
    /\ calls[1].promise = "pending"
    /\ calls[2].promise = "fulfilled"
    /\ calls[2].result.summary.changes > 0
    /\ <<calls[1].leftHtml, calls[1].rightHtml>>
         # <<calls[2].leftHtml, calls[2].rightHtml>>

\* C14: a call of compareHtmlDocuments returns a pending promise and does
\* no comparison work before its timer fires; once the callback has run
\* the promise is resolved exactly once and it is never rejected, on the
\* fast path, after a full comparison and after a failure.
C14_ResolvedOnce ==
    \A i \in 1..Len(calls) :
        /\ calls[i].promise # "rejected"
        /\ calls[i].timer = "set" =>
              /\ calls[i].promise = "pending"
              /\ calls[i].work = {}
              /\ calls[i].result = NoResult
              /\ calls[i].resolveCalls = 0
        /\ calls[i].timer = "fired" =>
              /\ calls[i].promise = "fulfilled"
              /\ calls[i].resolveCalls = 1

\* C14 happens: one callback took the fast path and another one ended in
\* the catch block; both promises are fulfilled.
C14_Witness ==
    \E i, j \in 1..Len(calls) :
        /\ calls[i].timer = "fired" /\ calls[i].threw = "none"
        /\ calls[i].work = {"text"}
        /\ calls[j].timer = "fired" /\ calls[j].threw # "none"
        /\ calls[i].promise = "fulfilled" /\ calls[j].promise = "fulfilled"

\* The original positions of the units of processed that are not
\* placeholders, in the order they are emitted.
EmittedPositions(processed) ==
    LET units == SelectSeq(processed, LAMBDA u : u.placeholderFor = <<>>)
    IN [k \in 1..Len(units) |-> units[k].index]

\* The positions 1..n in document order.
DocumentOrder(n) == [k \in 1..n |-> k]

\* C21: in the exact-mutual pipeline each output keeps the order of its
\* own document: the units of the right output that are not placeholders
\* are the units of the right document, each once, in their original
\* order, and the same for the left output and the left document.
C21_OutputKeepsOrder ==
    (Compared /\ pipeline = "exact") =>
        /\ EmittedPositions(leftProcessed)
             = DocumentOrder(Len(extractElementsWithDimensions(leftHtml)))
        /\ EmittedPositions(rightProcessed)
             = DocumentOrder(Len(extractElementsWithDimensions(rightHtml)))

\* Record k of alignment pairs two units with equal normalized text and
\* different key style properties.
StyleOnlyMatch(L, R, k) ==
    /\ alignment[k].matchType = "match"
    /\ NormalizeWs(L[alignment[k].leftIndex].text)
         = NormalizeWs(R[alignment[k].rightIndex].text)
    /\ L[alignment[k].leftIndex].preservedStyles
         # R[alignment[k].rightIndex].preservedStyles

\* Every style-only match of the alignment of L and R is highlighted
\* 'format-changed' on both sides.
StyleChangesMarked(L, R) ==
    \A k \in 1..Len(alignment) :
        StyleOnlyMatch(L, R, k) =>
            /\ leftProcessed[k].highlight = "format-changed"
            /\ rightProcessed[k].highlight = "format-changed"

\* C22: in performExactElementComparison a match whose two units have
\* equal normalized text and differ in a key style property is given
\* highlight 'format-changed' on the left and on the right.
C22_FormatChangedMarked ==
    (Compared /\ pipeline = "exact") =>
        StyleChangesMarked(extractElementsWithDimensions(leftHtml),
                           extractElementsWithDimensions(rightHtml))

\* The key style properties of two units of the format-preserving pipeline
\* are equal.
SameKeyStyles(l, r) ==
    l.formattingContext.computedStyles = r.formattingContext.computedStyles

\* Pair i of the index-aligned units L and R is classified as the rule
\* "none exactly for equal normalized texts and equal styles, modified
\* for different normalized texts" says.
ClassifiedByNormalizedText(L, R, i) ==
    /\ (leftProcessed[i].highlight = "none" /\ rightProcessed[i].highlight = "none")
         <=> (NormalizeWs(L[i].text) = NormalizeWs(R[i].text) /\ SameKeyStyles(L[i], R[i]))
    /\ NormalizeWs(L[i].text) # NormalizeWs(R[i].text) =>
          /\ leftProcessed[i].highlight = "modified"
          /\ rightProcessed[i].highlight = "modified"

\* Every pair of non-empty units of L and R at the same index is
\* classified by that rule.
PairsClassified(L, R) ==
    \A i \in 1..Min(Len(L), Len(R)) :
        (~L[i].isEmpty /\ ~R[i].isEmpty) => ClassifiedByNormalizedText(L, R, i)

\* C23: in performElementComparison of the format-preserving pipeline a
\* pair of non-empty units at the same index gets highlight 'none' if and
\* only if their texts are character-equal after whitespace normalization
\* and their key style properties are equal; a pair whose normalized
\* texts differ in any character is 'modified' on both sides.
C23_NoneIffEqualText ==
    (Compared /\ pipeline = "format") =>
        PairsClassified(extractFormattedElements(leftHtml),
                        extractFormattedElements(rightHtml))

\* The texts of the operations of diffs with operation op, in order.
OpTexts(diffs, op) ==
    LET ops == SelectSeq(diffs, LAMBDA d : d.op = op)
    IN [n \in 1..Len(ops) |-> ops[n].text]

\* The contents of the spans of class k among items, in order.
SpanTexts(items, k) ==
    LET spans == SelectSeq(items, LAMBDA it : it.k = k)
    IN [n \in 1..Len(spans) |-> spans[n].t]

\* The texts of texts, each between brackets after the sign.
Bracketed(sign, texts) ==
    [n \in 1..Len(texts) |-> <<"[", sign>> \o texts[n] \o <<"]">>]

\* The unwrapped text of items.
UnwrappedText(items) ==
    Concat(SpanTexts(items, "text"))

\* The highlighted markups left and right render the operations of diffs
\* one by one.
RendersOperations(diffs, left, right) ==
    /\ SpanTexts(right, "diff-highlight-added") = OpTexts(diffs, DIFF_INSERT)
    /\ SpanTexts(left, "diff-placeholder-added")
         = Bracketed("+", OpTexts(diffs, DIFF_INSERT))
    /\ SpanTexts(left, "diff-highlight-removed") = OpTexts(diffs, DIFF_DELETE)
    /\ SpanTexts(right, "diff-placeholder-removed")
         = Bracketed("-", OpTexts(diffs, DIFF_DELETE))
    /\ UnwrappedText(left) = Concat(OpTexts(diffs, DIFF_EQUAL))
    /\ UnwrappedText(right) = Concat(OpTexts(diffs, DIFF_EQUAL))

\* C24: applyInlineHighlighting of the format-preserving pipeline renders
\* every operation of the diff: an insert with text t is a
\* 'diff-highlight-added' span holding exactly t on the right and a
\* bracketed placeholder for t on the left, a delete with text t is a
\* 'diff-highlight-removed' span holding exactly t on the left and a
\* bracketed placeholder for t on the right, and the text of the equal
\* operations is emitted unwrapped and unchanged.
C24_InlineOperationsRendered ==
    (Compared /\ pipeline = "format") =>
        \A i \in 1..Len(leftProcessed) :
            leftProcessed[i].highlight = "modified" =>
                RendersOperations(
                    DiffSemantic(TextContent(leftProcessed[i].element[1]),
                                 TextContent(rightProcessed[i].element[1])),
                    leftProcessed[i].processedContent[1],
                    rightProcessed[i].processedContent[1])

\* C25: within one pipeline the preview of a text in an inline placeholder
\* and its preview in a whole-unit placeholder are cut at the same length
\* and get the ellipsis under the same condition: for every text the two
\* previews are the same.
C25_SamePreviewRule ==
    preview # NoPreview => preview.inline = preview.unit

\* A unit that is compared as a whole: an image or a table.
WholeUnit(u) == u.isImage \/ u.isTable

\* No character diff was applied to the processed unit u.
NotCharDiffed(u) == u.highlight # "modified" /\ u.mutualHtml = <<>>

\* Record k of the alignment of L and R leaves the images and tables whole:
\* a match of such units is classified 'none' on both sides.
WholeUnitsKept(L, R, k) ==
    (alignment[k].matchType = "match"
     /\ (WholeUnit(L[alignment[k].leftIndex]) \/ WholeUnit(R[alignment[k].rightIndex]))) =>
        /\ leftProcessed[k].highlight = "none"
        /\ rightProcessed[k].highlight = "none"

\* The image or table at position i of own, when it is identical to no
\* unit of other, is in leftOnly / rightOnly records only.
OnlyWholeRecord(own, other, i, claims, type) ==
    (WholeUnit(own[i])
     /\ \A j \in 1..Len(other) : ~areElementsExactlyIdentical(own[i], other[j])) =>
        /\ claims # {}
        /\ \A k \in claims : alignment[k].matchType = type

\* The images and tables of the units L and R are never character-diffed.
WholeUnitsNeverDiffed(L, R) ==
    /\ \A k \in 1..Len(alignment) : WholeUnitsKept(L, R, k)
    /\ \A k \in 1..Len(leftProcessed) :
          WholeUnit(leftProcessed[k]) => NotCharDiffed(leftProcessed[k])
    /\ \A k \in 1..Len(rightProcessed) :
          WholeUnit(rightProcessed[k]) => NotCharDiffed(rightProcessed[k])
    /\ \A i \in 1..Len(L) : OnlyWholeRecord(L, R, i, ClaimsOfLeft(i), "leftOnly")
    /\ \A j \in 1..Len(R) : OnlyWholeRecord(R, L, j, ClaimsOfRight(j), "rightOnly")

\* C26: in the exact-mutual pipeline the character diff is never applied
\* to an image or a table: a match of images or tables is classified
\* 'none', and an image or table that differs from every unit of the
\* other side is only in a whole-unit leftOnly or rightOnly record.
C26_WholeUnitsNotDiffed ==
    (Compared /\ pipeline = "exact") =>
        WholeUnitsNeverDiffed(extractElementsWithDimensions(leftHtml),
                              extractElementsWithDimensions(rightHtml))

\* C26 happens: two tables whose texts are similar enough for a fuzzy
\* match of text units are a leftOnly and a rightOnly record.
C26_Witness ==
    /\ Compared /\ pipeline = "exact"
    /\ \E k \in RecordsOfType("leftOnly"), m \in RecordsOfType("rightOnly") :
          /\ leftProcessed[k].isTable /\ leftProcessed[k].highlight = "removed"
          /\ rightProcessed[m].isTable /\ rightProcessed[m].highlight = "added"
          /\ SimilarAboveAnyKind(leftProcessed[k], rightProcessed[m],
                                 SimilarityThreshold)


\* C27: in the format-preserving pipeline the highlight of processed unit k
\* is applied to the copy of the element unit k was extracted from, also in
\* documents where the extraction skips selected elements.
C27_HighlightOnSourceElement ==
    structure # NoStructure => structure.target = structure.source


\* C28: in UnifiedMiniMap, whatever the interleaving of refreshes,
\* navigation, clicks and resets, the current index addresses a marker
\* whenever there are markers: 0 <= currentChange < markers.length.
C28_CurrentChangeInRange ==
    markers # <<>> => currentChange \in 0..(Len(markers) - 1)


AtRest ==
    /\ scroll # NoScroll
    /\ \A side \in Sides : ~scroll.scrollEvent[side] /\ ~scroll.isScrolling[side]

\* C30: when the user has scrolled one panel only, the events have stopped
\* and every reset timer has fired, the other panel stands at
\* round(targetMaxScroll * sourceScrollTop / sourceMaxScroll) of the source's
\* final position, and the source stands where the user left it.
C30_SynchronisedAtRest ==
    \A source \in Sides :
        (AtRest /\ scroll.userSides = {source}) =>
            /\ scroll.scrollTop[OtherSide(source)] =
                   TargetScrollTop(scroll.range, source, scroll.scrollTop[source])
            /\ scroll.scrollTop[source] = scroll.userTop

=============================================================================
